---- MODULE Spec2Model ----
(***************************************************************************)
(* A model of the tiered knowledge retrieval and caching engine of the     *)
(* avatar agent (apps/agent/src): the generic LRU+TTL cache RAGCache       *)
(* (rag/local_cache.py) run by concurrent asyncio tasks, and the tiered    *)
(* context composer KnowledgeContext / KnowledgeIntegration                *)
(* (knowledge/knowledge_integration.py).                                   *)
(*                                                                         *)
(* A Python str is a sequence of one-character strings.  None is the       *)
(* string "None".                                                          *)
(***************************************************************************)
EXTENDS Integers, Sequences, FiniteSets, TLC

(***************************************************************************)
(* Bounds of the model.                                                    *)
(***************************************************************************)
NumTasks == 2        \* concurrent asyncio tasks using one RAGCache
MaxTime == 2         \* the clock time.time() runs over 0..MaxTime
MaxSize == 2         \* max_size is drawn from 1..MaxSize at construction
WideSize == 3        \* max_size of the cache of SpecLRU
KeySize == 2         \* max_size of the cache of SpecKeys
MaxSessions == 2     \* initialize() calls in one process
MaxPatterns == 3     \* mistake patterns given to one provider's loads
MaxMistakes == 2     \* mistakes given to each knowledge base of a session
MaxLessons == 3      \* units in one lesson index
MaxAdds == 2         \* entries the callers of add_response put in one cache
MaxLoads == 2        \* load() calls on one provider
MaxExercises == 2    \* exercises in a lesson's content
MaxItems == 6        \* items in an exercise
MaxRules == 1        \* grammar rules in a lesson's content
MaxExamples == 4     \* examples of a grammar rule
MaxVocabulary == 16  \* vocabulary entries in a lesson's content
MaxQuestions == 3    \* items of an exercise given to start_exercise
MaxAttempts == 4     \* answers given in one exercise
MaxWords == 3        \* vocabulary items given to start_drill
MaxGameItems == 2    \* items of a game loaded
MaxMessages == 4     \* skips, right and wrong answers given in one game

None == "None"

(***************************************************************************)
(* Sequence helpers.                                                       *)
(***************************************************************************)
RECURSIVE Join(_, _)
\* sep.join(parts) for a list of strings
Join(sep, parts) ==
    IF parts = <<>> THEN <<>>
    ELSE IF Len(parts) = 1 THEN parts[1]
    ELSE parts[1] \o sep \o Join(sep, Tail(parts))

Range(s) == {s[i] : i \in 1..Len(s)}

(***************************************************************************)
(* Normalized key builder: RAGCache._normalize_query and _make_key.        *)
(***************************************************************************)
\* code points of the characters the model uses, in str comparison order
Alphabet == <<"\t", " ", ",", ":", "A", "B", "a", "b", "x", "y">>

CharOrd(c) == CHOOSE i \in 1..Len(Alphabet) : Alphabet[i] = c

\* a str literal as the sequence of its characters
Str(s) == [i \in 1..Len(s) |-> SubSeq(s, i, i)]

UpperCase == Str("ABCDEFGHIJKLMNOPQRSTUVWXYZ")

LowerCase == Str("abcdefghijklmnopqrstuvwxyz")

\* str.lower() on one character (ASCII)
LowerChar(c) ==
    IF \E i \in 1..Len(UpperCase) : UpperCase[i] = c
    THEN LowerCase[CHOOSE i \in 1..Len(UpperCase) : UpperCase[i] = c]
    ELSE c

Lower(s) == [i \in 1..Len(s) |-> LowerChar(s[i])]

\* str.isspace() on the characters the model uses
IsSpace(c) == c \in {" ", "\t"}

\* str.split(): the maximal runs of non-whitespace characters, in order
RECURSIVE SplitFrom(_, _, _)
SplitFrom(s, i, cur) ==
    IF i > Len(s) THEN (IF cur = <<>> THEN <<>> ELSE <<cur>>)
    ELSE IF IsSpace(s[i])
         THEN (IF cur = <<>> THEN <<>> ELSE <<cur>>) \o SplitFrom(s, i + 1, <<>>)
         ELSE SplitFrom(s, i + 1, Append(cur, s[i]))

Split(s) == SplitFrom(s, 1, <<>>)

\* str.strip(): split() already ignores leading and trailing whitespace
RECURSIVE LStrip(_)
LStrip(s) == IF s # <<>> /\ IsSpace(Head(s)) THEN LStrip(Tail(s)) ELSE s

RECURSIVE RStrip(_)
RStrip(s) ==
    IF s # <<>> /\ IsSpace(s[Len(s)]) THEN RStrip(SubSeq(s, 1, Len(s) - 1)) ELSE s

Strip(s) == RStrip(LStrip(s))

\* " ".join(query.lower().strip().split())
NormalizeQuery(query) == Join(<<" ">>, Split(Strip(Lower(query))))

\* s < t in Python's str order
RECURSIVE StrLess(_, _)
StrLess(s, t) ==
    IF t = <<>> THEN FALSE
    ELSE IF s = <<>> THEN TRUE
    ELSE IF Head(s) = Head(t) THEN StrLess(Tail(s), Tail(t))
    ELSE CharOrd(Head(s)) < CharOrd(Head(t))

\* variant of Sorted that keeps the list in the caller's order
Unsorted(s) == s

\* sorted(list of str): insertion sort, stable
RECURSIVE InsertSorted(_, _)
InsertSorted(x, s) ==
    IF s = <<>> THEN <<x>>
    ELSE IF StrLess(x, Head(s)) THEN <<x>> \o s
    ELSE <<Head(s)>> \o InsertSorted(x, Tail(s))

RECURSIVE Sorted(_)
Sorted(s) ==
    IF s = <<>> THEN <<>> ELSE InsertSorted(s[Len(s)], Sorted(SubSeq(s, 1, Len(s) - 1)))

\* f"{normalized}:{collections_str}"; the sha256 prefix taken of it is
\* modelled as injective, so the key is the hashed text itself
MakeKey(query, collection_ids) ==
    NormalizeQuery(query) \o <<":">> \o Join(<<",">>, Sorted(collection_ids))

(***************************************************************************)
(* RAGCache: the state of one cache and of the asyncio tasks that use it.  *)
(* Tasks of one event loop run one at a time and change hands only where a *)
(* coroutine suspends.  Lock.acquire() on a free lock does not suspend and *)
(* the bodies under the lock await nothing, so get(), set(), clear() and   *)
(* invalidate_collection() each run in one step; get_or_fetch suspends in  *)
(* "await fetch_fn()" only.  Tasks are interchangeable: the state keeps the *)
(* suspended get_or_fetch calls, not which task runs which.                *)
(***************************************************************************)
VARIABLES
    max_size,      \* RAGCache.max_size
    ttl_seconds,   \* RAGCache.ttl_seconds
    cache,         \* RAGCache._cache: the OrderedDict as a sequence, oldest first
    lock,          \* RAGCache._lock.locked()
    now,           \* what time.time() returns
    fetching,      \* the get_or_fetch calls awaiting fetch_fn(), oldest first
    touch,         \* history: the stored keys by last insertion or get() hit
    last,          \* history: the call on the cache that returned last
    watch          \* which history a run records: "none", "history", "race", ...

cacheVars == <<max_size, ttl_seconds, cache, lock, now, fetching, touch, last, watch>>

\* KnowledgeIntegration and the KnowledgeContext it returned last
VARIABLES
    initialized,   \* KnowledgeIntegration._initialized
    rlm,           \* KnowledgeIntegration.rlm: the RLMKnowledgeProvider (Tier 1)
    general,       \* KnowledgeIntegration.general: the GeneralKnowledgeBase (Tier 2)
    lesson_index,  \* LessonKnowledgeManager.index
    content_cache, \* LessonKnowledgeManager.content_cache
    context,       \* the KnowledgeContext built last
    origin,        \* history: what built it, get_context_for_query or a caller
    composed,      \* whether to_string() was called on it, and what it returned
    waiting,       \* the get_content calls waiting for self.convex.query
    served,        \* history: what the get_content call that returned last gave
    sessions       \* history: the avatars' knowledge initialized, in order

composeVars ==
    <<initialized, rlm, general, lesson_index, content_cache, context, origin, composed,
      waiting, served, sessions>>

\* ResponseCache and what its lookup returned last
VARIABLES
    responses,        \* ResponseCache._responses
    current_context,  \* ResponseCache._current_context
    answered,         \* history: the last lookup, its input and what it returned
    inserted          \* history: the entries of each priority, in the order
                      \* add_response got them

respVars == <<responses, current_context, answered, inserted>>

\* answer grading
VARIABLES
    graded,  \* history: the last answer graded, by which check, and the verdict
    matched, \* history: the last match_query call since the index was loaded,
             \* the index it searched and what it returned
    registered,  \* history: the pattern data given to RLMKnowledgeProvider.load
                 \* and the mistakes given to _add_mistake, in the order given
    checked  \* history: the last load or mistake check, its input and result

callVars == <<graded, matched, registered, checked>>

\* exercises, vocabulary drills and games
VARIABLES
    exercise,  \* ExerciseTracker.current
    drill,     \* VocabularyDriller.current
    game,      \* GameContextManager.current_game
    told       \* history: the last call of a tracker, driller or game handler,
               \* and what it returned

tutorVars == <<exercise, drill, game, told>>

\* the values a fetch_fn returns or a caller stores
Values == {None, "v1"}

TtlChoices == {1}

\* the (query, collection_ids) pairs the tasks ask for
Requests ==
    { [query |-> <<"a">>, collection_ids |-> << <<"x">> >>],
      [query |-> <<"A", " ">>, collection_ids |-> << <<"x">> >>],
      [query |-> <<"b">>, collection_ids |-> << <<"x">> >>],
      [query |-> <<"a">>, collection_ids |-> << <<"y">>, <<"x">> >>] }

\* the same with one key more, for SpecLRU
WideRequests ==
    Requests \cup { [query |-> <<"b">>, collection_ids |-> << <<"y">> >>] }

\* pairs that differ in case, whitespace, order and repetition of the ids,
\* and ids and queries that hold the separators "," and ":"
KeyQueries ==
    { Str("A  b"), <<" ", "a", "\t", " ", "B", " ">>, Str("ab") }

KeyCollections ==
    { <<Str("x")>>, <<Str("x"), Str("y")>>, <<Str("y"), Str("x")>>,
      <<Str("x"), Str("x")>>, <<Str("x,y")>> }

KeyRequests ==
    {[query |-> q, collection_ids |-> c] : q \in KeyQueries, c \in KeyCollections}

\* key = self._make_key(query, collection_ids), for each request
KeyOf == [r \in WideRequests \cup KeyRequests |-> MakeKey(r.query, r.collection_ids)]

Keys == {KeyOf[r] : r \in WideRequests}

\* CacheEntry(result, timestamp); hit_count and _stats are write-only counters
CacheEntry(k, result, timestamp) ==
    [key |-> k, result |-> result, timestamp |-> timestamp]

\* position of key k in the ordered dict c, 0 when absent
IndexOf(c, k) ==
    IF \E i \in 1..Len(c) : c[i].key = k
    THEN CHOOSE i \in 1..Len(c) : c[i].key = k
    ELSE 0

HasKey(c, k) == IndexOf(c, k) # 0

\* del c[k]
DelKey(c, k) == SelectSeq(c, LAMBDA e : e.key # k)

\* OrderedDict.move_to_end(k)
MoveToEnd(c, k) == Append(DelKey(c, k), c[IndexOf(c, k)])

\* variant of StoreEntry in which the first value stored under a key stays
\* (dict.setdefault): what C5 excludes
StoreIfAbsent(c, k, e) == IF HasKey(c, k) THEN c ELSE Append(c, e)

\* c[k] = e: a present key keeps its position, a new key goes last
StoreEntry(c, k, e) ==
    IF HasKey(c, k)
    THEN [i \in 1..Len(c) |-> IF c[i].key = k THEN e ELSE c[i]]
    ELSE Append(c, e)

\* variant of EvictOldest that evicts only above max_size
\* ("while len(c) > max_size"): what C8 excludes
RECURSIVE EvictOver(_, _)
EvictOver(c, n) ==
    IF Len(c) > n /\ c # <<>> THEN EvictOver(Tail(c), n) ELSE c

\* while len(c) >= max_size: c.popitem(last=False)
RECURSIVE EvictOldest(_, _)
EvictOldest(c, n) ==
    IF Len(c) >= n /\ c # <<>> THEN EvictOldest(Tail(c), n) ELSE c

\* time.time() - entry.timestamp > self.ttl_seconds
IsExpired(entry, t, ttl) == t - entry.timestamp > ttl

\* the branch get() takes for key k
GetOutcome(c, k, t, ttl) ==
    IF ~HasKey(c, k) THEN "absent"
    ELSE IF IsExpired(c[IndexOf(c, k)], t, ttl) THEN "expired"
    ELSE "hit"

\* variant of GetCache in which a hit restarts the entry's age (sliding
\* expiry): what C10 excludes
GetCacheSliding(c, k, t, ttl) ==
    CASE GetOutcome(c, k, t, ttl) = "absent" -> c
      [] GetOutcome(c, k, t, ttl) = "expired" -> DelKey(c, k)
      [] OTHER -> Append(DelKey(c, k), CacheEntry(k, c[IndexOf(c, k)].result, t))

\* the ordered dict get() leaves
GetCache(c, k, t, ttl) ==
    CASE GetOutcome(c, k, t, ttl) = "absent" -> c
      [] GetOutcome(c, k, t, ttl) = "expired" -> DelKey(c, k)
      [] OTHER -> MoveToEnd(c, k)

\* what get() returns
GetResult(c, k, t, ttl) ==
    IF GetOutcome(c, k, t, ttl) = "hit" THEN c[IndexOf(c, k)].result ELSE None

\* the ordered dict set() leaves
SetCache(c, k, v, t, n) == StoreEntry(EvictOldest(c, n), k, CacheEntry(k, v, t))

\* "if cached is not None: return cached, True"
ServedFromCache(cached) == cached # None

\* variant of Released in which the lock stays held after the block, as it
\* would across the rest of get_or_fetch: what C6 excludes
StillHeld == TRUE

\* the lock as the exit of "async with self._lock" leaves it
Released == FALSE

\* keys of the ordered dict, as a sequence
KeysOf(c) == [i \in 1..Len(c) |-> c[i].key]

\* history: key k was inserted or hit just now; only stored keys are kept
Touched(tch, k, c) ==
    LET kept == SelectSeq(tch, LAMBDA x : x # k /\ HasKey(c, x))
    IN  IF HasKey(c, k) THEN Append(kept, k) ELSE kept

\* a get_or_fetch call suspended in "await fetch_fn()": its key, and as
\* history (kept when watch = "race") raced: another get_or_fetch of the same
\* key was awaiting fetch_fn() when this one missed
Suspended(k, raced) == [key |-> k, raced |-> raced]

\* history record of the call that returned last: the operation, how it went
\* ("hit", "absent", "expired", "stored", "raised"), and
\*   when watch = "history": its key, the value and was_cached it returned,
\*      and the time;
\*   when watch = "race", on a "stored": its key and value; over, the key
\*      was stored with another value between the miss of a raced call and
\*      its own set(); within, the call missed and returned while an older
\*      fetch of another key was awaited
\*   when watch = "cancel": the value and was_cached it returned
Returned(op, how, k, value, cached, at, over, within) ==
    CASE watch = "history" ->
            [op |-> op, how |-> how, key |-> k, value |-> value,
             cached |-> cached, at |-> at, over |-> FALSE, within |-> FALSE]
      [] watch = "race" ->
            [op |-> op, how |-> how, key |-> IF how = "stored" THEN k ELSE <<>>,
             value |-> IF how = "stored" THEN value ELSE None,
             cached |-> FALSE, at |-> 0, over |-> over, within |-> within]
      [] watch = "cancel" ->
            [op |-> op, how |-> how, key |-> <<>>, value |-> value,
             cached |-> cached, at |-> 0, over |-> FALSE, within |-> FALSE]
      [] OTHER -> last

NoLast == [op |-> "none", how |-> "none", key |-> <<>>, value |-> None,
           cached |-> FALSE, at |-> 0, over |-> FALSE, within |-> FALSE]

\* the state a new RAGCache(max_size, ttl_seconds) is in, no call running
Constructed(sizes) ==
    /\ max_size \in sizes
    /\ ttl_seconds \in TtlChoices
    /\ cache = <<>>
    /\ lock = FALSE
    /\ now = 0
    /\ fetching = <<>>
    /\ touch = <<>>
    /\ last = NoLast

\* a task is free to make a call, and "async with self._lock" lets it in
CanCall == Len(fetching) < NumTasks /\ ~lock

\* await cache.get(query, collection_ids)
Get(r) ==
    /\ CanCall
    /\ LET k == KeyOf[r]
           outcome == GetOutcome(cache, k, now, ttl_seconds)
       IN  /\ cache' = GetCache(cache, k, now, ttl_seconds)
           /\ touch' = Touched(touch, IF outcome = "hit" THEN k ELSE <<>>, cache')
           /\ last' = Returned("get", outcome, k,
                               GetResult(cache, k, now, ttl_seconds), FALSE, now,
                               FALSE, FALSE)
    /\ lock' = Released
    /\ UNCHANGED <<max_size, ttl_seconds, now, fetching, watch>>
    /\ UNCHANGED <<tutorVars, composeVars, respVars, callVars>>

\* await cache.set(query, collection_ids, result)
Set(r, v) ==
    /\ CanCall
    /\ LET k == KeyOf[r]
       IN  /\ cache' = SetCache(cache, k, v, now, max_size)
           /\ touch' = Touched(touch, k, cache')
           /\ last' = Returned("set", "stored", k, None, FALSE, now, FALSE, FALSE)
    /\ lock' = Released
    /\ UNCHANGED <<max_size, ttl_seconds, now, fetching, watch>>
    /\ UNCHANGED <<tutorVars, composeVars, respVars, callVars>>

\* await cache.get_or_fetch(...): get(), then return the hit or call fetch_fn()
GetOrFetch(r) ==
    /\ CanCall
    /\ LET k == KeyOf[r]
           outcome == GetOutcome(cache, k, now, ttl_seconds)
           cached == GetResult(cache, k, now, ttl_seconds)
       IN  /\ cache' = GetCache(cache, k, now, ttl_seconds)
           /\ touch' = Touched(touch, IF outcome = "hit" THEN k ELSE <<>>, cache')
           /\ IF ServedFromCache(cached)
              THEN /\ last' = Returned("get_or_fetch", "hit", k, cached, TRUE, now,
                                       FALSE, FALSE)
                   /\ UNCHANGED fetching
              ELSE /\ last' = Returned("get", outcome, k, cached, FALSE, now,
                                       FALSE, FALSE)
                   /\ fetching' = Append(fetching,
                         Suspended(k, watch = "race" /\ \E i \in 1..Len(fetching) :
                                          fetching[i].key = k))
    /\ lock' = Released
    /\ UNCHANGED <<max_size, ttl_seconds, now, watch>>
    /\ UNCHANGED <<tutorVars, composeVars, respVars, callVars>>

\* the suspended calls without the i-th
Left(i) == SubSeq(fetching, 1, i - 1) \o SubSeq(fetching, i + 1, Len(fetching))

\* fetch_fn() of the i-th suspended call returns v: get_or_fetch resumes,
\* calls set() and returns (v, False)
FetchReturn(i, v) ==
    /\ i \in 1..Len(fetching)
    /\ ~lock
    /\ cache' = SetCache(cache, fetching[i].key, v, now, max_size)
    /\ touch' = Touched(touch, fetching[i].key, cache')
    /\ last' = Returned("get_or_fetch", "stored", fetching[i].key, v, FALSE, now,
                        /\ fetching[i].raced
                        /\ HasKey(cache, fetching[i].key)
                        /\ cache[IndexOf(cache, fetching[i].key)].result # v,
                        \E j \in 1..(i - 1) : fetching[j].key # fetching[i].key)
    /\ lock' = Released
    /\ fetching' = Left(i)
    /\ UNCHANGED <<max_size, ttl_seconds, now, watch>>
    /\ UNCHANGED <<tutorVars, composeVars, respVars, callVars>>

\* variant of FetchRaise in which the failed call stores its empty result
StoreFailure(i) == FetchReturn(i, None)

\* fetch_fn() of the i-th suspended call raises: get_or_fetch ends with the
\* exception, set() is not called
FetchRaise(i) ==
    /\ i \in 1..Len(fetching)
    /\ fetching' = Left(i)
    /\ last' = Returned("get_or_fetch", "raised", fetching[i].key, None, FALSE, now,
                        FALSE, FALSE)
    /\ UNCHANGED <<max_size, ttl_seconds, cache, lock, now, touch, watch>>
    /\ UNCHANGED <<tutorVars, composeVars, respVars, callVars>>

\* await cache.clear()
Clear ==
    /\ CanCall
    /\ cache' = <<>>
    /\ touch' = <<>>
    /\ last' = Returned("clear", "none", <<>>, None, FALSE, now, FALSE, FALSE)
    /\ lock' = Released
    /\ UNCHANGED <<max_size, ttl_seconds, now, fetching, watch>>
    /\ UNCHANGED <<tutorVars, composeVars, respVars, callVars>>

\* await cache.invalidate_collection(collection_id): clears the whole cache
InvalidateCollection ==
    /\ CanCall
    /\ cache' = <<>>
    /\ touch' = <<>>
    /\ last' = Returned("invalidate_collection", "none", <<>>, Len(cache), FALSE,
                        now, FALSE, FALSE)
    /\ lock' = Released
    /\ UNCHANGED <<max_size, ttl_seconds, now, fetching, watch>>
    /\ UNCHANGED <<tutorVars, composeVars, respVars, callVars>>

\* on_user_turn_completed, RAG context injection (main.py): what the turn
\* gets from the get_or_fetch call that returned ret. The try block catches
\* every Exception of the call; chunks are injected if truthy.
OnUserTurnCompleted(ret) ==
    [injected |-> IF ret.op = "get_or_fetch" /\ ret.how \in {"hit", "stored"}
                  THEN ret.value ELSE None,
     raised |-> FALSE]

\* time passes
Tick ==
    /\ now < MaxTime
    /\ now' = now + 1
    /\ UNCHANGED <<max_size, ttl_seconds, cache, lock, fetching, touch, last, watch>>
    /\ UNCHANGED <<tutorVars, composeVars, respVars, callVars>>

\* the calls on the cache, for requests drawn from R
CallNext(R) ==
    \/ \E r \in R : Get(r)
    \/ \E r \in R, v \in Values : Set(r, v)
    \/ \E r \in R : GetOrFetch(r)
    \/ \E i \in 1..NumTasks, v \in Values : FetchReturn(i, v)
    \/ \E i \in 1..NumTasks : FetchRaise(i)
    \/ Clear
    \/ InvalidateCollection

(***************************************************************************)
(* The three knowledge tiers and the composer: RLMKnowledgeProvider        *)
(* (knowledge/rlm_knowledge.py), GeneralKnowledgeBase                      *)
(* (knowledge/general_knowledge.py), LessonKnowledgeManager                *)
(* (knowledge/lesson_manager.py), KnowledgeContext and                     *)
(* KnowledgeIntegration (knowledge/knowledge_integration.py).              *)
(* A dict is the sequence of its items in insertion order.  In a formatted *)
(* text a fixed run of the format string is kept as one element.           *)
(***************************************************************************)
\* s[:n]
Take(s, n) == SubSeq(s, 1, IF Len(s) < n THEN Len(s) ELSE n)

\* sub in s, for two str
Contains(sub, s) ==
    \E i \in 0..(Len(s) - Len(sub)) : SubSeq(s, i + 1, i + Len(sub)) = sub

\* the concatenation of a list of lists
RECURSIVE Flatten(_)
Flatten(ss) == IF ss = <<>> THEN <<>> ELSE Head(ss) \o Flatten(Tail(ss))

\* k in d
DictHas(d, k) == \E i \in 1..Len(d) : d[i].key = k

\* d[k]
DictGet(d, k) == d[CHOOSE i \in 1..Len(d) : d[i].key = k].value

\* the orders in which a set can be iterated
SetOrders(S) == {o \in [1..Cardinality(S) -> S] : Range(o) = S}

\* None, where the value is a record otherwise
Absent == [none |-> TRUE]

\* words = user_text.lower().split()
Words(text) == Split(Lower(text))

(* Tier 1: RLMKnowledgeProvider *)
RLMGrammarRule(rule, explanation, examples, level) ==
    [rule |-> rule, explanation |-> explanation, examples |-> examples, level |-> level]

RLMVocabularyEntry(term, term_de, definition, part_of_speech, example) ==
    [term |-> term, term_de |-> term_de, definition |-> definition,
     part_of_speech |-> part_of_speech, example |-> example]

\* re.compile(pattern, re.IGNORECASE): the regex compiled, re.error, or
\* another exception.  The patterns of the model are plain words, which
\* compile; words with "(", an unbalanced parenthesis, which is re.error;
\* and words with "{", a repetition count above MAXREPEAT, for which
\* re.compile raises OverflowError, not a subclass of re.error
ReCompile(pattern) ==
    IF \E i \in 1..Len(pattern) : pattern[i] = "{" THEN "OverflowError"
    ELSE IF \E i \in 1..Len(pattern) : pattern[i] = "(" THEN "re.error"
    ELSE "compiled"

\* RLMMistakePattern(...) with __post_init__, where re.compile raised nothing
\* but re.error: compiled_pattern is TRUE for a compiled regex and FALSE
\* for None; the compiled, case-insensitive regex of a plain word finds the
\* word where the text holds it
RLMMistakePattern(pattern, correction, explanation, category) ==
    [pattern |-> pattern, correction |-> correction, explanation |-> explanation,
     category |-> category, compiled_pattern |-> ReCompile(pattern) = "compiled"]

\* RLMKnowledgeProvider(): nothing loaded
NewProvider ==
    [knowledge_bases |-> 0, grammar_by_keyword |-> <<>>, vocab_by_term |-> <<>>,
     vocab_by_term_de |-> <<>>, mistake_patterns |-> <<>>]

\* self._stats["knowledge_bases"] > 0
IsLoaded(p) == p.knowledge_bases > 0

grammar_phrases ==
    << Str("present perfect"), Str("past simple"), Str("present simple"),
       Str("future tense"), Str("conditional"), Str("passive voice"),
       Str("past participle"), Str("gerund"), Str("infinitive"),
       Str("modal verb"), Str("phrasal verb"), Str("relative clause"),
       Str("article"), Str("preposition"), Str("conjunction") >>

\* search_terms: the words of the query and the grammar phrases it holds
SearchTerms(query) ==
    Range(Words(query)) \cup
        {ph \in Range(grammar_phrases) : Contains(ph, Lower(query))}

\* results after appending the rules whose rule text is not seen yet
RECURSIVE AddUnseen(_, _)
AddUnseen(results, rules) ==
    IF rules = <<>> THEN results
    ELSE AddUnseen(IF \E i \in 1..Len(results) : results[i].rule = Head(rules).rule
                   THEN results
                   ELSE Append(results, Head(rules)),
                   Tail(rules))

RECURSIVE RlmCollect(_, _, _)
RlmCollect(p, order, results) ==
    IF order = <<>> THEN results
    ELSE RlmCollect(p, Tail(order),
                    IF DictHas(p.grammar_by_keyword, Head(order))
                    THEN AddUnseen(results, DictGet(p.grammar_by_keyword, Head(order)))
                    ELSE results)

\* RLMKnowledgeProvider.lookup_grammar; order is the order in which the set
\* search_terms is iterated
RlmLookupGrammar(p, query, order) ==
    IF p.grammar_by_keyword = <<>> THEN <<>>
    ELSE Take(RlmCollect(p, order, <<>>), 5)

\* RLMKnowledgeProvider.lookup_vocabulary
RlmLookupVocabulary(p, term) ==
    LET term_lower == Strip(Lower(term))
    IN  IF DictHas(p.vocab_by_term, term_lower) THEN DictGet(p.vocab_by_term, term_lower)
        ELSE IF DictHas(p.vocab_by_term_de, term_lower)
             THEN DictGet(p.vocab_by_term_de, term_lower)
             ELSE Absent

\* RLMKnowledgeProvider.check_mistakes
RlmCheckMistakes(p, text) ==
    IF p.mistake_patterns = <<>> \/ text = <<>> THEN <<>>
    ELSE SelectSeq(p.mistake_patterns,
                   LAMBDA m : m.compiled_pattern /\ Contains(Lower(m.pattern), Lower(text)))

\* RLMKnowledgeProvider.format_grammar_for_context
RlmFormatGrammar(rules) ==
    IF rules = <<>> THEN <<>>
    ELSE LET RuleParts(rule) ==
                 << <<"\n**">> \o rule.rule \o <<"** (">> \o rule.level \o <<")">>,
                    rule.explanation >>
                 \o (IF rule.examples # <<>>
                     THEN << <<"Examples: ">> \o Join(<<"; ">>, Take(rule.examples, 2)) >>
                     ELSE <<>>)
             shown == Take(rules, 3)
         IN  Join(<<"\n">>, << <<"[RLM GRAMMAR KNOWLEDGE]">> >>
                            \o Flatten([i \in 1..Len(shown) |-> RuleParts(shown[i])]))

\* RLMKnowledgeProvider.format_vocabulary_for_context
RlmFormatVocabulary(entries) ==
    IF entries = <<>> THEN <<>>
    ELSE LET EntryParts(entry) ==
                 << <<"- **">> \o entry.term \o <<"** (">> \o entry.term_de \o <<") - ">>
                    \o entry.part_of_speech \o <<": ">> \o entry.definition >>
                 \o (IF entry.example # <<>>
                     THEN << <<"  *Example: ">> \o entry.example \o <<"*">> >>
                     ELSE <<>>)
             shown == Take(entries, 5)
         IN  Join(<<"\n">>, << <<"[RLM VOCABULARY]">> >>
                            \o Flatten([i \in 1..Len(shown) |-> EntryParts(shown[i])]))

\* RLMKnowledgeProvider.format_mistake_for_context
RlmFormatMistake(pattern) ==
    <<"[RLM MISTAKE DETECTED - ">> \o pattern.category \o <<"]", "\n">>
    \o <<"Student may have made this error: ">> \o pattern.pattern \o <<"\n">>
    \o <<"Correction: ">> \o pattern.correction \o <<"\n">>
    \o <<"Explanation: ">> \o pattern.explanation

(* Tier 2: GeneralKnowledgeBase *)
\* examples is a list of dicts with the keys correct and incorrect
GrammarRule(id, name, category, level, explanation_en, formula, examples, keywords) ==
    [id |-> id, name |-> name, category |-> category, level |-> level,
     explanation_en |-> explanation_en, formula |-> formula, examples |-> examples,
     keywords |-> keywords]

VocabularyEntry(term, term_de, definition, example_sentence) ==
    [term |-> term, term_de |-> term_de, definition |-> definition,
     example_sentence |-> example_sentence]

CommonMistake(id, pattern, correct, explanation_en) ==
    [id |-> id, pattern |-> pattern, correct |-> correct,
     explanation_en |-> explanation_en]

\* d[k] = v
DictPut(d, k, v) ==
    IF DictHas(d, k)
    THEN [i \in 1..Len(d) |-> IF d[i].key = k THEN [key |-> k, value |-> v] ELSE d[i]]
    ELSE Append(d, [key |-> k, value |-> v])

\* if k not in d: d[k] = []; then d[k].append(x)
DictAppendTo(d, k, x) ==
    DictPut(d, k, Append(IF DictHas(d, k) THEN DictGet(d, k) ELSE <<>>, x))

\* GeneralKnowledgeBase(): nothing loaded
NewGeneral ==
    [grammar_rules |-> <<>>, grammar_by_category |-> <<>>, grammar_by_keyword |-> <<>>,
     vocabulary |-> <<>>, vocabulary_de |-> <<>>, mistake_patterns |-> <<>>]

RECURSIVE IndexKeywords(_, _, _)
IndexKeywords(d, keywords, rule) ==
    IF keywords = <<>> THEN d
    ELSE IndexKeywords(DictAppendTo(d, Lower(Head(keywords)), rule), Tail(keywords), rule)

\* GeneralKnowledgeBase._add_grammar_rule
AddGrammarRule(g, rule) ==
    [g EXCEPT !.grammar_rules = DictPut(@, rule.id, rule),
              !.grammar_by_category = DictAppendTo(@, rule.category, rule),
              !.grammar_by_keyword = IndexKeywords(@, rule.keywords, rule)]

\* GeneralKnowledgeBase._add_vocabulary; the by-level and by-category indexes,
\* which no lookup of the composer reads, are left out
AddVocabulary(g, entry) ==
    [g EXCEPT !.vocabulary = DictPut(@, Lower(entry.term), entry),
              !.vocabulary_de = IF entry.term_de # <<>>
                                THEN DictPut(@, Lower(entry.term_de), entry)
                                ELSE @]

\* GeneralKnowledgeBase._add_mistake
AddMistake(g, mistake) ==
    [g EXCEPT !.mistake_patterns = DictPut(@, Lower(mistake.pattern), mistake)]

\* difflib.SequenceMatcher.find_longest_match: the longest block common to a
\* and b, the one that starts earliest in a, then earliest in b
LongestMatch(a, b) ==
    LET blocks == {t \in (1..Len(a)) \X (1..Len(b)) \X (1..Len(a)) :
                      /\ t[1] + t[3] - 1 <= Len(a)
                      /\ t[2] + t[3] - 1 <= Len(b)
                      /\ SubSeq(a, t[1], t[1] + t[3] - 1) = SubSeq(b, t[2], t[2] + t[3] - 1)}
    IN  IF blocks = {} THEN <<0, 0, 0>>
        ELSE CHOOSE t \in blocks : \A u \in blocks :
                \/ t[3] > u[3]
                \/ t[3] = u[3] /\ t[1] < u[1]
                \/ t[3] = u[3] /\ t[1] = u[1] /\ t[2] <= u[2]

\* the number of matching characters SequenceMatcher counts: the longest
\* block, then the same to its left and to its right
RECURSIVE MatchingChars(_, _)
MatchingChars(a, b) ==
    LET m == LongestMatch(a, b)
    IN  IF m[3] = 0 THEN 0
        ELSE m[3]
             + MatchingChars(SubSeq(a, 1, m[1] - 1), SubSeq(b, 1, m[2] - 1))
             + MatchingChars(SubSeq(a, m[1] + m[3], Len(a)), SubSeq(b, m[2] + m[3], Len(b)))

\* self._fuzzy_match(s1, s2) > 0.6, where the ratio is 2.0 * matches / total
\* and 1.0 for two empty strings
FuzzyAbove(s1, s2) ==
    IF Len(s1) + Len(s2) = 0 THEN TRUE
    ELSE 10 * MatchingChars(s1, s2) > 3 * (Len(s1) + Len(s2))

\* results after appending the rules that are not in it ("rule not in results")
RECURSIVE AddNew(_, _)
AddNew(results, rules) ==
    IF rules = <<>> THEN results
    ELSE AddNew(IF Head(rules) \in Range(results) THEN results
                ELSE Append(results, Head(rules)),
                Tail(rules))

RECURSIVE ByKeyword(_, _, _)
ByKeyword(g, words, results) ==
    IF words = <<>> THEN results
    ELSE ByKeyword(g, Tail(words),
                   IF DictHas(g.grammar_by_keyword, Head(words))
                   THEN AddNew(results, DictGet(g.grammar_by_keyword, Head(words)))
                   ELSE results)

RECURSIVE ByCategory(_, _, _)
ByCategory(items, query_lower, results) ==
    IF items = <<>> THEN results
    ELSE ByCategory(Tail(items), query_lower,
                    IF Contains(Head(items).key, query_lower)
                    THEN AddNew(results, Head(items).value)
                    ELSE results)

\* GeneralKnowledgeBase.lookup_grammar
GeneralLookupGrammar(g, query) ==
    LET query_lower == Lower(query)
        exact == ByCategory(g.grammar_by_category, query_lower,
                            ByKeyword(g, Split(query_lower), <<>>))
        rules == [i \in 1..Len(g.grammar_rules) |-> g.grammar_rules[i].value]
        results == IF exact # <<>> THEN exact
                   ELSE SelectSeq(rules, LAMBDA rule : FuzzyAbove(query_lower, Lower(rule.name)))
    IN  Take(results, 5)

\* GeneralKnowledgeBase.lookup_vocabulary
GeneralLookupVocabulary(g, term) ==
    LET term_lower == Lower(term)
    IN  IF DictHas(g.vocabulary, term_lower) THEN DictGet(g.vocabulary, term_lower)
        ELSE IF DictHas(g.vocabulary_de, term_lower)
             THEN DictGet(g.vocabulary_de, term_lower)
             ELSE Absent

\* GeneralKnowledgeBase.check_for_mistakes
GeneralCheckForMistakes(g, text) ==
    LET found == SelectSeq(g.mistake_patterns, LAMBDA it : Contains(it.key, Lower(text)))
    IN  [i \in 1..Len(found) |-> found[i].value]

\* GeneralKnowledgeBase.format_grammar_for_context; "(tick)" and "(cross)"
\* stand for the check mark and the cross of the format strings
GeneralFormatGrammar(rules) ==
    IF rules = <<>> THEN <<>>
    ELSE LET ExampleParts(ex) ==
                 << <<"  (tick) ">> \o ex.correct >>
                 \o (IF ex.incorrect # <<>> THEN << <<"  (cross) ">> \o ex.incorrect >>
                     ELSE <<>>)
             RuleParts(rule) ==
                 << <<"\n## ">> \o rule.name,
                    <<"Level: ">> \o rule.level,
                    <<"Explanation: ">> \o rule.explanation_en >>
                 \o (IF rule.formula # <<>> THEN << <<"Formula: ">> \o rule.formula >>
                     ELSE <<>>)
                 \o (IF rule.examples # <<>>
                     THEN << <<"Examples:">> >>
                          \o Flatten([i \in 1..Len(Take(rule.examples, 2)) |->
                                         ExampleParts(rule.examples[i])])
                     ELSE <<>>)
             shown == Take(rules, 3)
         IN  Join(<<"\n">>, << <<"[RELEVANT GRAMMAR RULES]">> >>
                            \o Flatten([i \in 1..Len(shown) |-> RuleParts(shown[i])]))

\* GeneralKnowledgeBase.format_vocabulary_for_context; "(bullet)" stands for
\* the bullet of the format string
GeneralFormatVocabulary(entries) ==
    IF entries = <<>> THEN <<>>
    ELSE LET EntryParts(entry) ==
                 << <<"(bullet) ">> \o entry.term \o <<" (">> \o entry.term_de \o <<") - ">>
                    \o entry.definition >>
                 \o (IF entry.example_sentence # <<>>
                     THEN << <<"  Example: ">> \o entry.example_sentence >>
                     ELSE <<>>)
             shown == Take(entries, 5)
         IN  Join(<<"\n">>, << <<"[VOCABULARY REFERENCE]">> >>
                            \o Flatten([i \in 1..Len(shown) |-> EntryParts(shown[i])]))

\* GeneralKnowledgeBase.format_mistake_correction
GeneralFormatMistake(mistake) ==
    <<"I noticed a common German speaker mistake! ", "'">> \o mistake.pattern
    \o <<"' in English means '">> \o mistake.explanation_en
    \o <<"'. Instead, you should say '">> \o mistake.correct \o <<"'.">>

(* Tier 3: LessonKnowledgeManager *)
LessonIndex(content_id, title, exercise_count, vocabulary_count, grammar_count, keywords) ==
    [content_id |-> content_id, title |-> title, exercise_count |-> exercise_count,
     vocabulary_count |-> vocabulary_count, grammar_count |-> grammar_count,
     keywords |-> keywords]

\* the trigger words of match_query; "(u umlaut)" stands for that letter
triggers ==
    [exercise |-> << Str("exercise"), <<"(u umlaut)">> \o Str("bung"), Str("practice"),
                     Str("test"), Str("quiz"), Str("question") >>,
     grammar |-> << Str("grammar"), Str("grammatik"), Str("rule"), Str("tense"),
                    Str("modal"), Str("verb"), Str("conjugat") >>,
     vocabulary |-> << Str("vocabulary"), Str("vocab"), Str("word"), Str("vokabel"),
                       Str("wort"), Str("term") >>]

\* any(w in text_lower for w in words)
Triggered(words, text_lower) == \E i \in 1..Len(words) : Contains(words[i], text_lower)

\* the score of a lesson whose counts are not looked at
LessonScoreAnyKind(lesson, text_lower) ==
    2 * Cardinality({i \in 1..Len(lesson.keywords) :
                        /\ lesson.keywords[i] # <<>>
                        /\ Contains(lesson.keywords[i], text_lower)})
    + (IF Triggered(triggers.exercise, text_lower) THEN 3 ELSE 0)
    + (IF Triggered(triggers.grammar, text_lower) THEN 3 ELSE 0)
    + (IF Triggered(triggers.vocabulary, text_lower) THEN 3 ELSE 0)

\* the score match_query gives a lesson
LessonScore(lesson, text_lower) ==
    2 * Cardinality({i \in 1..Len(lesson.keywords) :
                        /\ lesson.keywords[i] # <<>>
                        /\ Contains(lesson.keywords[i], text_lower)})
    + (IF Triggered(triggers.exercise, text_lower) /\ lesson.exercise_count > 0
       THEN 3 ELSE 0)
    + (IF Triggered(triggers.grammar, text_lower) /\ lesson.grammar_count > 0
       THEN 3 ELSE 0)
    + (IF Triggered(triggers.vocabulary, text_lower) /\ lesson.vocabulary_count > 0
       THEN 3 ELSE 0)

\* the list as it is, unsorted
LoadOrder(matches) == matches

\* matches.sort(key=score, reverse=True): stable, highest score first
RECURSIVE InsertByScore(_, _)
InsertByScore(m, sorted) ==
    IF sorted = <<>> THEN <<m>>
    ELSE IF m.score > Head(sorted).score THEN <<m>> \o sorted
    ELSE <<Head(sorted)>> \o InsertByScore(m, Tail(sorted))

RECURSIVE SortByScore(_)
SortByScore(matches) ==
    IF matches = <<>> THEN <<>>
    ELSE InsertByScore(matches[Len(matches)],
                       SortByScore(SubSeq(matches, 1, Len(matches) - 1)))

\* LessonKnowledgeManager.match_query
MatchQuery(index, user_text) ==
    LET text_lower == Lower(user_text)
        scored == [i \in 1..Len(index) |->
                      [score |-> LessonScore(index[i], text_lower), lesson |-> index[i]]]
        matches == SortByScore(SelectSeq(scored, LAMBDA m : m.score > 0))
    IN  [i \in 1..Len(Take(matches, 2)) |-> matches[i].lesson]

\* LessonKnowledgeManager.format_for_context with focus "all"
FormatForContext(json_content) ==
    LET content == json_content.content
        metadata == json_content.metadata
        ItemParts(item) ==
            << <<"- Q: ">> \o item.question, <<"  A: ">> \o item.correctAnswer >>
            \o (IF item.explanation # <<>>
                THEN << <<"  Explanation: ">> \o item.explanation >> ELSE <<>>)
        ExerciseParts(ex) ==
            << <<"\n### ">> \o ex.title, <<"Type: ">> \o ex.type,
               <<"Instructions: ">> \o ex.instructions >>
            \o Flatten([i \in 1..Len(Take(ex.items, 5)) |-> ItemParts(ex.items[i])])
        RuleExampleParts(ex) ==
            << <<"  Correct: ">> \o ex.correct >>
            \o (IF ex.incorrect # <<>>
                THEN << <<"  Incorrect: ">> \o ex.incorrect >> ELSE <<>>)
            \o (IF ex.explanation # <<>>
                THEN << <<"  Why: ">> \o ex.explanation >> ELSE <<>>)
        RuleParts(rule) ==
            << <<"\n### ">> \o rule.name, <<"Category: ">> \o rule.category,
               <<"Formula: ">> \o rule.formula, <<"Explanation: ">> \o rule.rule >>
            \o Flatten([i \in 1..Len(Take(rule.examples, 3)) |->
                           RuleExampleParts(rule.examples[i])])
        VocabParts(vocab) ==
            << <<"- ">> \o vocab.term \o <<" (">> \o vocab.termDe \o <<")">>,
               <<"  Definition: ">> \o vocab.definition >>
            \o (IF vocab.exampleSentence # <<>>
                THEN << <<"  Example: ">> \o vocab.exampleSentence >> ELSE <<>>)
    IN  Join(<<"\n">>,
             << <<"[LESSON: ">> \o metadata.title \o <<"]">>,
                <<"Level: ">> \o metadata.level,
                <<"Topic: ">> \o metadata.topic >>
             \o (IF content.exercises # <<>>
                 THEN << <<"\n## EXERCISES:">> >>
                      \o Flatten([i \in 1..Len(content.exercises) |->
                                     ExerciseParts(content.exercises[i])])
                 ELSE <<>>)
             \o (IF content.grammarRules # <<>>
                 THEN << <<"\n## GRAMMAR RULES:">> >>
                      \o Flatten([i \in 1..Len(content.grammarRules) |->
                                     RuleParts(content.grammarRules[i])])
                 ELSE <<>>)
             \o (IF content.vocabulary # <<>>
                 THEN << <<"\n## VOCABULARY:">> >>
                      \o Flatten([i \in 1..Len(Take(content.vocabulary, 15)) |->
                                     VocabParts(content.vocabulary[i])])
                 ELSE <<>>)
             \o << <<"\n[END LESSON]">> >>)

(* KnowledgeContext *)
\* the dataclass, its fields in order
KnowledgeContext(rlm_grammar_context, rlm_vocabulary_context, rlm_mistake_context, grammar_context, vocabulary_context, mistake_correction, lesson_context, session_progress) ==
    [rlm_grammar_context |-> rlm_grammar_context,
     rlm_vocabulary_context |-> rlm_vocabulary_context,
     rlm_mistake_context |-> rlm_mistake_context,
     grammar_context |-> grammar_context,
     vocabulary_context |-> vocabulary_context,
     mistake_correction |-> mistake_correction,
     lesson_context |-> lesson_context,
     session_progress |-> session_progress]

\* KnowledgeContext(): every field ""
EmptyContext == KnowledgeContext(<<>>, <<>>, <<>>, <<>>, <<>>, <<>>, <<>>, <<>>)

\* variant of to_string that appends every non-empty field, the Tier 2 fields
\* without looking at the Tier 1 ones: what C1 excludes
to_string_all(ctx) ==
    Join(<<"\n", "\n">>,
         SelectSeq(<< ctx.rlm_grammar_context, ctx.rlm_vocabulary_context,
                      ctx.rlm_mistake_context, ctx.grammar_context,
                      ctx.vocabulary_context, ctx.mistake_correction,
                      ctx.lesson_context, ctx.session_progress >>,
                   LAMBDA part : part # <<>>))

\* variant of to_string that puts the lesson content in front
to_string_lesson_first(ctx) ==
    Join(<<"\n", "\n">>,
         SelectSeq(<< ctx.lesson_context, ctx.rlm_grammar_context,
                      ctx.rlm_vocabulary_context, ctx.rlm_mistake_context,
                      IF ctx.rlm_grammar_context # <<>> THEN <<>> ELSE ctx.grammar_context,
                      IF ctx.rlm_vocabulary_context # <<>> THEN <<>>
                      ELSE ctx.vocabulary_context,
                      IF ctx.rlm_mistake_context # <<>> THEN <<>>
                      ELSE ctx.mistake_correction,
                      ctx.session_progress >>,
                   LAMBDA part : part # <<>>))

\* KnowledgeContext.to_string
to_string(ctx) ==
    LET If(cond, part) == IF cond THEN <<part>> ELSE <<>>
        parts ==
            If(ctx.rlm_grammar_context # <<>>, ctx.rlm_grammar_context)
            \o If(ctx.rlm_vocabulary_context # <<>>, ctx.rlm_vocabulary_context)
            \o If(ctx.rlm_mistake_context # <<>>, ctx.rlm_mistake_context)
            \o If(ctx.grammar_context # <<>> /\ ~(ctx.rlm_grammar_context # <<>>),
                  ctx.grammar_context)
            \o If(ctx.vocabulary_context # <<>> /\ ~(ctx.rlm_vocabulary_context # <<>>),
                  ctx.vocabulary_context)
            \o If(ctx.mistake_correction # <<>> /\ ~(ctx.rlm_mistake_context # <<>>),
                  ctx.mistake_correction)
            \o If(ctx.lesson_context # <<>>, ctx.lesson_context)
            \o If(ctx.session_progress # <<>>, ctx.session_progress)
    IN  IF parts # <<>> THEN Join(<<"\n", "\n">>, parts) ELSE <<>>

(* KnowledgeIntegration *)
\* get_content that returned what the query gave without keeping it
StoreNothing(cache_, content_id, reply) ==
    [content |-> IF reply.kind = "record" THEN reply.jsonContent ELSE Absent,
     cache |-> cache_]

\* get_content that remembered failed queries as well
StoreAnything(cache_, content_id, reply) ==
    [content |-> IF reply.kind = "record" THEN reply.jsonContent ELSE Absent,
     cache |-> DictPut(cache_, content_id,
                       IF reply.kind = "record" THEN reply.jsonContent ELSE Absent)]

\* LessonKnowledgeManager.get_content after the query answered: a record
\* with a jsonContent is cached and returned; a query that raised, gave
\* nothing or gave a record without jsonContent returns None
StoreContent(cache_, content_id, reply) ==
    IF reply.kind = "record" /\ reply.jsonContent # Absent
    THEN [content |-> reply.jsonContent,
          cache |-> DictPut(cache_, content_id, reply.jsonContent)]
    ELSE [content |-> Absent, cache |-> cache_]

\* LessonKnowledgeManager.get_content run without another task in between:
\* the cached content, or what the query's reply leaves
GetContent(cache_, content_id, reply) ==
    IF DictHas(cache_, content_id)
    THEN [content |-> DictGet(cache_, content_id), cache |-> cache_]
    ELSE StoreContent(cache_, content_id, reply)

\* LessonKnowledgeManager.format_for_context reads json_content.get("metadata", {})
\* and json_content.get("content", {}) with .get(): a jsonContent whose
\* metadata or content is null makes it raise AttributeError
FormatRaises(json_content) ==
    json_content.metadata = Absent \/ json_content.content = Absent

\* the entries of the words of more than 3 characters that the lookup finds;
\* lookup maps each word of the text to what lookup_vocabulary(word) returns
VocabEntries(lookup, user_text) ==
    LET words == Words(user_text)
        found == [i \in 1..Len(words) |->
                     IF Len(words[i]) > 3 THEN lookup[words[i]] ELSE Absent]
    IN  SelectSeq(found, LAMBDA entry : entry # Absent)

\* get_context_for_query, TIER 1: the RLM fields, when the provider p
\* (self.rlm) is loaded
Tier1(p, ctx, user_text, include_grammar, include_vocabulary, check_mistakes, order) ==
    IF ~IsLoaded(p) THEN ctx
    ELSE LET rlm_grammar ==
                 IF include_grammar THEN RlmLookupGrammar(p, user_text, order)
                 ELSE <<>>
             rlm_vocab_entries ==
                 IF include_vocabulary
                 THEN VocabEntries([word \in Range(Words(user_text)) |-> RlmLookupVocabulary(p, word)],
                                   user_text)
                 ELSE <<>>
             rlm_mistakes ==
                 IF check_mistakes THEN RlmCheckMistakes(p, user_text) ELSE <<>>
         IN  [ctx EXCEPT
                !.rlm_grammar_context =
                    IF rlm_grammar # <<>> THEN RlmFormatGrammar(rlm_grammar) ELSE @,
                !.rlm_vocabulary_context =
                    IF rlm_vocab_entries # <<>> THEN RlmFormatVocabulary(rlm_vocab_entries)
                    ELSE @,
                !.rlm_mistake_context =
                    IF rlm_mistakes # <<>> THEN RlmFormatMistake(rlm_mistakes[1]) ELSE @]

\* variant of Tier2 that skips the built-in lookups altogether once the RLM
\* gave anything
Tier2Global(g, ctx, user_text, include_grammar, include_vocabulary, check_mistakes) ==
    LET any == \/ ctx.rlm_grammar_context # <<>>
               \/ ctx.rlm_vocabulary_context # <<>>
               \/ ctx.rlm_mistake_context # <<>>
        grammar_rules ==
            IF include_grammar /\ ~any THEN GeneralLookupGrammar(g, user_text) ELSE <<>>
        vocab_entries ==
            IF include_vocabulary /\ ~any
            THEN VocabEntries([word \in Range(Words(user_text)) |-> GeneralLookupVocabulary(g, word)],
                              user_text)
            ELSE <<>>
        mistakes ==
            IF check_mistakes /\ ~any THEN GeneralCheckForMistakes(g, user_text) ELSE <<>>
    IN  [ctx EXCEPT
           !.grammar_context =
               IF grammar_rules # <<>> THEN GeneralFormatGrammar(grammar_rules) ELSE @,
           !.vocabulary_context =
               IF vocab_entries # <<>> THEN GeneralFormatVocabulary(vocab_entries) ELSE @,
           !.mistake_correction =
               IF mistakes # <<>> THEN GeneralFormatMistake(mistakes[1]) ELSE @]

\* get_context_for_query, TIER 2: the built-in fields from the base g
\* (self.general), each only where the RLM field of its category is empty
Tier2(g, ctx, user_text, include_grammar, include_vocabulary, check_mistakes) ==
    LET grammar_rules ==
            IF include_grammar /\ ~(ctx.rlm_grammar_context # <<>>)
            THEN GeneralLookupGrammar(g, user_text) ELSE <<>>
        vocab_entries ==
            IF include_vocabulary /\ ~(ctx.rlm_vocabulary_context # <<>>)
            THEN VocabEntries([word \in Range(Words(user_text)) |-> GeneralLookupVocabulary(g, word)],
                              user_text)
            ELSE <<>>
        mistakes ==
            IF check_mistakes /\ ~(ctx.rlm_mistake_context # <<>>)
            THEN GeneralCheckForMistakes(g, user_text) ELSE <<>>
    IN  [ctx EXCEPT
           !.grammar_context =
               IF grammar_rules # <<>> THEN GeneralFormatGrammar(grammar_rules) ELSE @,
           !.vocabulary_context =
               IF vocab_entries # <<>> THEN GeneralFormatVocabulary(vocab_entries) ELSE @,
           !.mistake_correction =
               IF mistakes # <<>> THEN GeneralFormatMistake(mistakes[1]) ELSE @]

\* variant of Tier3 that adds the lesson content only where Tier 1 and Tier 2
\* gave nothing
Tier3IfNone(ctx, matching_lessons, given) ==
    IF matching_lessons # <<>> /\ given.content # Absent /\ ctx = EmptyContext
    THEN [ctx EXCEPT !.lesson_context = FormatForContext(given.content)]
    ELSE ctx

\* get_context_for_query, TIER 3: the content of the best matching lesson;
\* given is what get_content gave for it
Tier3(ctx, matching_lessons, given) ==
    IF matching_lessons # <<>> /\ given.content # Absent
    THEN [ctx EXCEPT !.lesson_context = FormatForContext(given.content)]
    ELSE ctx

(* The knowledge the model loads and the texts it asks about *)
RlmRules ==
    << RLMGrammarRule(Str("R1"), Str("e1"), <<Str("x1"), Str("x2"), Str("x3")>>, Str("B1")),
       RLMGrammarRule(Str("R2"), Str("e2"), <<>>, Str("A2")) >>

RlmEntry == RLMVocabularyEntry(Str("baby"), Str("abba"), Str("d1"), Str("noun"), Str("s1"))

RlmPattern == RLMMistakePattern(Str("Ab"), Str("c1"), Str("e3"), Str("k1"))

\* providers as load_rlm_from_convex returns them: nothing linked; one
\* knowledge base with a grammar rule and a mistake pattern; two knowledge
\* bases with all three kinds
RlmProviders ==
    << NewProvider,
       [NewProvider EXCEPT !.knowledge_bases = 1,
           !.grammar_by_keyword = << [key |-> Str("verb"), value |-> <<RlmRules[2]>>] >>,
           !.mistake_patterns = <<RlmPattern>>],
       [NewProvider EXCEPT !.knowledge_bases = 2,
           !.grammar_by_keyword = << [key |-> Str("abba"), value |-> <<RlmRules[1]>>],
                                     [key |-> Str("baby"), value |-> RlmRules] >>,
           !.vocab_by_term = << [key |-> Str("baby"), value |-> RlmEntry] >>,
           !.vocab_by_term_de = << [key |-> Str("abba"), value |-> RlmEntry] >>,
           !.mistake_patterns = <<RlmPattern>>] >>

GeneralRules ==
    << GrammarRule(Str("g1"), Str("Abba tense"), Str("tenses"), Str("A1"), Str("e4"),
                   Str("f1"), << [correct |-> Str("ok"), incorrect |-> Str("no")] >>,
                   <<Str("Abba")>>),
       GrammarRule(Str("g2"), Str("Verbs"), Str("verb"), Str("A2"), Str("e5"),
                   <<>>, <<>>, <<>>) >>

GeneralEntry == VocabularyEntry(Str("Baby"), Str("Kind"), Str("d2"), <<>>)

GeneralMistake == CommonMistake(Str("m1"), Str("ab"), Str("c2"), Str("e6"))

\* knowledge bases as load_from_convex leaves them
GeneralBases ==
    << AddMistake(AddVocabulary(AddGrammarRule(NewGeneral, GeneralRules[1]), GeneralEntry),
                  GeneralMistake),
       AddGrammarRule(AddGrammarRule(NewGeneral, GeneralRules[1]), GeneralRules[2]) >>

Lesson == LessonIndex(Str("c1"), Str("Babies"), 0, 1, 1, <<Str("baby")>>)

Lesson2 == LessonIndex(Str("c2"), Str("Verbs"), 0, 0, 1, <<Str("verb")>>)

\* what initialize() can load for an avatar
Backends ==
    << [rlm |-> RlmProviders[1], general |-> GeneralBases[1], lesson_index |-> <<>>],
       [rlm |-> RlmProviders[2], general |-> GeneralBases[2],
        lesson_index |-> <<Lesson, Lesson2>>],
       [rlm |-> RlmProviders[3], general |-> GeneralBases[1], lesson_index |-> <<Lesson>>] >>

\* the jsonContent the backend holds for each content id; the second has
\* "metadata": null
Library ==
    << [key |-> Str("c1"),
        value |->
          [metadata |-> [title |-> Str("Babies"), level |-> Str("A1"), topic |-> Str("t1")],
           content |->
             [exercises |-> << [title |-> Str("x4"), type |-> Str("gap"),
                                instructions |-> Str("i1"),
                                items |-> << [question |-> Str("q1"),
                                              correctAnswer |-> Str("a1"),
                                              explanation |-> <<>>] >>] >>,
              grammarRules |-> << [name |-> Str("n1"), category |-> Str("tenses"),
                                   formula |-> Str("f2"), rule |-> Str("r1"),
                                   examples |-> << [correct |-> Str("ok"),
                                                    incorrect |-> <<>>,
                                                    explanation |-> Str("w1")] >>] >>,
              vocabulary |-> << [term |-> Str("baby"), termDe |-> Str("Kind"),
                                 definition |-> Str("d3"),
                                 exampleSentence |-> Str("s2")] >>]]],
       [key |-> Str("c2"),
        value |->
          [metadata |-> Absent,
           content |-> [exercises |-> <<>>, grammarRules |-> <<>>, vocabulary |-> <<>>]]] >>

\* what self.convex.query("knowledgeBases:getContentById") can do for a content id:
\* raise, give nothing, give a record without jsonContent, or give the
\* record the backend holds
Replies(content_id) ==
    { [kind |-> "raises", jsonContent |-> Absent],
      [kind |-> "nothing", jsonContent |-> Absent],
      [kind |-> "record", jsonContent |-> Absent] }
    \cup { [kind |-> "record", jsonContent |-> Library[i].value] :
             i \in {j \in 1..Len(Library) : Library[j].key = content_id} }

\* no query was made
NoReply == [kind |-> "nothing", jsonContent |-> Absent]

\* what a get_content call returned: the id asked for, the content given
\* and the number of queries the call made
Served(content_id, content, queries) ==
    [id |-> content_id, content |-> content, queries |-> queries, raised |-> FALSE]

NotServed == [id |-> <<>>, content |-> Absent, queries |-> 0, raised |-> FALSE]

UserTexts ==
    {Str("abba"), Str("Abba  baby"), Str("ab"), Str("a verb"), Str("Tenses"), <<>>}

\* the contexts a caller can build: every field empty or a text of its kind
Contexts ==
    { KnowledgeContext(f[1], f[2], f[3], f[4], f[5], f[6], f[7], f[8]) :
        f \in {<<>>, RlmFormatGrammar(RlmRules)}
              \X {<<>>, RlmFormatVocabulary(<<RlmEntry>>)}
              \X {<<>>, RlmFormatMistake(RlmPattern)}
              \X {<<>>, GeneralFormatGrammar(GeneralRules)}
              \X {<<>>, GeneralFormatVocabulary(<<GeneralEntry>>)}
              \X {<<>>, GeneralFormatMistake(GeneralMistake)}
              \X {<<>>, FormatForContext(Library[1].value)}
              \X {<<>>, Str("p1")} }

NotComposed == [done |-> FALSE, text |-> <<>>]

\* KnowledgeIntegration(convex_client), no context built yet
NewIntegration ==
    /\ initialized = FALSE
    /\ rlm = NewProvider
    /\ general = NewGeneral
    /\ lesson_index = <<>>
    /\ content_cache = <<>>
    /\ context = EmptyContext
    /\ origin = "KnowledgeContext"
    /\ composed = NotComposed
    /\ waiting = <<>>
    /\ served = NotServed
    /\ sessions = <<>>

\* await knowledge.initialize(avatar_id): the three loads, with what the
\* backend holds for the avatar
Initialize(backend) ==
    /\ ~initialized
    /\ rlm' = backend.rlm
    /\ general' = backend.general
    /\ lesson_index' = backend.lesson_index
    /\ initialized' = TRUE
    /\ sessions' = IF watch = "sessions" THEN <<backend>> ELSE sessions
    /\ UNCHANGED <<content_cache, context, origin, composed, waiting, served>>
    /\ UNCHANGED <<cacheVars, tutorVars, respVars, callVars>>

\* the calls of get_context_for_query: the text, the four include flags and
\* the order in which the set search_terms is iterated
Queries ==
    UNION { {[user_text |-> t, include_lesson |-> f[1], include_grammar |-> f[2],
              include_vocabulary |-> f[3], check_mistakes |-> f[4], order |-> o] :
                f \in [1..4 -> BOOLEAN], o \in SetOrders(SearchTerms(t))} :
            t \in UserTexts }

\* TIER 1 then TIER 2 of get_context_for_query for each backend and call,
\* computed once
Tiered ==
    [i \in 1..Len(Backends) |-> [q \in Queries |->
        Tier2(Backends[i].general,
              Tier1(Backends[i].rlm, EmptyContext, q.user_text, q.include_grammar,
                    q.include_vocabulary, q.check_mistakes, q.order),
              q.user_text, q.include_grammar, q.include_vocabulary, q.check_mistakes)]]

\* match_query for each backend and text, computed once
Matching ==
    [i \in 1..Len(Backends) |-> [t \in UserTexts |->
        MatchQuery(Backends[i].lesson_index, t)]]

\* the values of a dict, in its order
DictValues(d) == [i \in 1..Len(d) |-> d[i].value]

\* for key, values in data.items(): d.setdefault(key, []).extend(values)
RECURSIVE DictExtend(_, _)
DictExtend(d, data) ==
    IF data = <<>> THEN d
    ELSE DictExtend(DictPut(d, Head(data).key,
                            (IF DictHas(d, Head(data).key)
                             THEN DictGet(d, Head(data).key) ELSE <<>>)
                            \o Head(data).value),
                    Tail(data))

\* for key, value in data.items(): d[key] = value
RECURSIVE DictUpdate(_, _)
DictUpdate(d, data) ==
    IF data = <<>> THEN d
    ELSE DictUpdate(DictPut(d, Head(data).key, Head(data).value), Tail(data))

\* load_rlm_from_convex on the module-global provider p (get_rlm_provider()):
\* RLMKnowledgeProvider.load of each content of the avatar's knowledge bases
\* adds to what p holds; loaded is what those contents give a new provider
LoadRlm(p, loaded) ==
    [knowledge_bases |-> p.knowledge_bases + loaded.knowledge_bases,
     grammar_by_keyword |-> DictExtend(p.grammar_by_keyword, loaded.grammar_by_keyword),
     vocab_by_term |-> DictUpdate(p.vocab_by_term, loaded.vocab_by_term),
     vocab_by_term_de |-> DictUpdate(p.vocab_by_term_de, loaded.vocab_by_term_de),
     mistake_patterns |-> p.mistake_patterns \o loaded.mistake_patterns]

\* GeneralKnowledgeBase._load_grammar
RECURSIVE LoadGrammar(_, _)
LoadGrammar(g, data) ==
    IF data = <<>> THEN g ELSE LoadGrammar(AddGrammarRule(g, Head(data)), Tail(data))

\* GeneralKnowledgeBase._load_vocabulary
RECURSIVE LoadVocabulary(_, _)
LoadVocabulary(g, data) ==
    IF data = <<>> THEN g ELSE LoadVocabulary(AddVocabulary(g, Head(data)), Tail(data))

\* GeneralKnowledgeBase._load_mistakes
RECURSIVE LoadMistakes(_, _)
LoadMistakes(g, data) ==
    IF data = <<>> THEN g ELSE LoadMistakes(AddMistake(g, Head(data)), Tail(data))

\* self.general.load_from_convex on the module-global base g
\* (get_general_knowledge()): the three loads add to what g holds; loaded is
\* what the data gives a new base
LoadGeneral(g, loaded) ==
    LoadMistakes(LoadVocabulary(LoadGrammar(g, DictValues(loaded.grammar_rules)),
                                DictValues(loaded.vocabulary)),
                 DictValues(loaded.mistake_patterns))

\* TIER 1 then TIER 2 of get_context_for_query on the provider p and the
\* base g
Lookups(p, g, q) ==
    Tier2(g,
          Tier1(p, EmptyContext, q.user_text, q.include_grammar,
                q.include_vocabulary, q.check_mistakes, q.order),
          q.user_text, q.include_grammar, q.include_vocabulary, q.check_mistakes)

\* what the integration holds is what one initialize() loaded
IsBackend ==
    [rlm |-> rlm, general |-> general, lesson_index |-> lesson_index] \in Range(Backends)

\* which backend the integration holds
Loaded ==
    CHOOSE i \in 1..Len(Backends) :
        Backends[i] = [rlm |-> rlm, general |-> general, lesson_index |-> lesson_index]

\* await knowledge.initialize(avatar_id) when one was done before in the
\* process, by the same KnowledgeIntegration (same) or by a new one: both hold
\* the module-global provider and base, which the loads add to; load_index
\* replaces the index of the instance's own lesson manager when there is data
InitializeAgain(backend, same) ==
    /\ initialized
    /\ Len(sessions) < MaxSessions
    /\ rlm' = LoadRlm(rlm, backend.rlm)
    /\ general' = LoadGeneral(general, backend.general)
    /\ lesson_index' = IF same /\ backend.lesson_index # <<>>
                       THEN backend.lesson_index ELSE lesson_index
    /\ sessions' = IF watch = "sessions" THEN Append(sessions, backend) ELSE sessions
    /\ UNCHANGED <<initialized, content_cache, context, origin, composed, waiting, served>>
    /\ UNCHANGED <<cacheVars, tutorVars, respVars, callVars>>

\* context = await knowledge.get_context_for_query(user_text, ...); the
\* content query, when get_content makes it, gives any of what it can.
\* Nothing in get_context_for_query catches what format_for_context raises
GetContextForQuery(q) ==
    /\ IF ~initialized
       THEN /\ context' = EmptyContext
            /\ origin' = "get_context_for_query"
            /\ composed' = NotComposed
            /\ UNCHANGED <<content_cache, served>>
       ELSE LET matching_lessons ==
                    IF q.include_lesson /\ lesson_index # <<>>
                    THEN IF IsBackend /\ q.user_text \in UserTexts
                         THEN Matching[Loaded][q.user_text]
                         ELSE MatchQuery(lesson_index, q.user_text)
                    ELSE <<>>
                tiers == IF IsBackend /\ q \in Queries THEN Tiered[Loaded][q]
                         ELSE Lookups(rlm, general, q)
                content_id == matching_lessons[1].content_id
                miss == matching_lessons # <<>> /\ ~DictHas(content_cache, content_id)
            IN  \E reply \in IF miss THEN Replies(content_id) ELSE {NoReply} :
                   LET given == IF matching_lessons # <<>>
                                THEN GetContent(content_cache, content_id, reply)
                                ELSE [content |-> Absent, cache |-> content_cache]
                   IN  /\ content_cache' = given.cache
                       /\ served' = IF watch = "content" /\ matching_lessons # <<>>
                                     THEN Served(content_id, given.content,
                                                 IF miss THEN 1 ELSE 0)
                                     ELSE served
                       /\ IF /\ matching_lessons # <<>>
                             /\ given.content # Absent
                             /\ FormatRaises(given.content)
                          THEN /\ origin' = "raised"
                               /\ UNCHANGED <<context, composed>>
                          ELSE /\ context' = Tier3(tiers, matching_lessons, given)
                               /\ origin' = "get_context_for_query"
                               /\ composed' = NotComposed
    /\ UNCHANGED <<initialized, rlm, general, lesson_index, waiting, sessions>>
    /\ UNCHANGED <<cacheVars, tutorVars, respVars, callVars>>

\* context = KnowledgeContext(...): a caller builds a context itself
NewContext(ctx) ==
    /\ context' = ctx
    /\ origin' = "KnowledgeContext"
    /\ composed' = NotComposed
    /\ UNCHANGED <<initialized, rlm, general, lesson_index, content_cache,
                   waiting, served, sessions>>
    /\ UNCHANGED <<cacheVars, tutorVars, respVars, callVars>>

\* context.to_string()
CallToString ==
    /\ composed' = [done |-> TRUE, text |-> to_string(context)]
    /\ UNCHANGED <<initialized, rlm, general, lesson_index, content_cache, context, origin,
                   waiting, served, sessions>>
    /\ UNCHANGED <<cacheVars, tutorVars, respVars, callVars>>

\* json_content = await self._lesson_manager.get_content(content_id), up to
\* the query: a cached id returns at once, any other id waits for the query
CallGetContent(content_id) ==
    /\ IF DictHas(content_cache, content_id)
       THEN /\ served' = IF watch = "content"
                         THEN Served(content_id, DictGet(content_cache, content_id), 0)
                         ELSE served
            /\ UNCHANGED waiting
       ELSE /\ Len(waiting) < NumTasks
            /\ waiting' = Append(waiting, content_id)
            /\ UNCHANGED served
    /\ UNCHANGED <<initialized, rlm, general, lesson_index, content_cache, context, origin,
                   composed, sessions>>
    /\ UNCHANGED <<cacheVars, tutorVars, respVars, callVars>>

\* the query of the i-th waiting get_content call answers and the call
\* returns; it does not look into content_cache again before storing
ContentReturn(i, reply) ==
    /\ i \in 1..Len(waiting)
    /\ reply \in Replies(waiting[i])
    /\ LET given == StoreContent(content_cache, waiting[i], reply)
       IN  /\ content_cache' = given.cache
           /\ served' = IF watch = "content"
                         THEN Served(waiting[i], given.content, 1)
                         ELSE served
    /\ waiting' = SubSeq(waiting, 1, i - 1) \o SubSeq(waiting, i + 1, Len(waiting))
    /\ UNCHANGED <<initialized, rlm, general, lesson_index, context, origin, composed,
                   sessions>>
    /\ UNCHANGED <<cacheVars, tutorVars, respVars, callVars>>

NextCompose ==
    \/ \E backend \in Range(Backends) : Initialize(backend)
    \/ \E q \in Queries : GetContextForQuery(q)
    \/ \E ctx \in Contexts : NewContext(ctx)
    \/ CallToString

(***************************************************************************)
(* ResponseCache: pre-computed responses, looked up before the LLM is      *)
(* asked.                                                                  *)
(***************************************************************************)
CachedResponse(trigger, response, is_pattern, ctx, priority, audio_url) ==
    [trigger |-> trigger, response |-> response, is_pattern |-> is_pattern,
     context |-> ctx, priority |-> priority, audio_url |-> audio_url]

\* the priorities the entries of the model have; 5 is that of the slide
\* explanations
Priorities == {0, 1, 5, 10}

\* history: the entries the add_response calls for items made, each behind
\* those of its priority
RECURSIVE Inserted(_, _)
Inserted(ins, entries) ==
    IF entries = <<>> THEN ins
    ELSE Inserted([ins EXCEPT ![Head(entries).priority] = Append(@, Head(entries))],
                  Tail(entries))

\* ResponseCache()
NewResponseCache ==
    /\ responses = <<>>
    /\ current_context = <<>>
    /\ answered = [input |-> <<>>, entry |-> Absent, how |-> "none"]
    /\ inserted = [p \in Priorities |-> <<>>]

\* variant of SortByPriority that leaves the list as appended
NotSorted(rs) == rs

\* list.sort(key=lambda x: -x.priority): stable, higher priority first
RECURSIVE InsertByPriority(_, _)
InsertByPriority(x, rs) ==
    IF rs = <<>> THEN <<x>>
    ELSE IF x.priority > Head(rs).priority THEN <<x>> \o rs
    ELSE <<Head(rs)>> \o InsertByPriority(x, Tail(rs))

RECURSIVE SortByPriority(_)
SortByPriority(rs) ==
    IF rs = <<>> THEN <<>>
    ELSE InsertByPriority(rs[Len(rs)], SortByPriority(SubSeq(rs, 1, Len(rs) - 1)))

\* the entry add_response makes of its arguments: a literal trigger is
\* lowercased, a pattern is kept as given
NewEntry(item) ==
    CachedResponse(IF ~item.is_pattern THEN Lower(item.trigger) ELSE item.trigger,
                   item.response, item.is_pattern, item.context, item.priority,
                   item.audio_url)

\* ResponseCache.add_response on the list rs: append, then sort
add_response(rs, item) == SortByPriority(Append(rs, NewEntry(item)))

\* add_response for each item in turn
RECURSIVE AddEach(_, _)
AddEach(rs, items) ==
    IF items = <<>> THEN rs ELSE AddEach(add_response(rs, Head(items)), Tail(items))

\* the patterns of the model are alternatives of plain words, w1|w2, and
\* the pattern "(", which re.compile rejects with re.error
RECURSIVE Alternatives(_, _)
Alternatives(pattern, cur) ==
    IF pattern = <<>> THEN {cur}
    ELSE IF Head(pattern) = "|" THEN {cur} \cup Alternatives(Tail(pattern), <<>>)
    ELSE Alternatives(Tail(pattern), Append(cur, Head(pattern)))

ReError(pattern) == \E i \in 1..Len(pattern) : pattern[i] = "("

\* re.search(pattern, text, re.IGNORECASE) finds a match
ReSearch(pattern, text) ==
    \E w \in Alternatives(pattern, <<>>) : Contains(Lower(w), Lower(text))

\* variant of Eligible that lets every entry through
AlwaysEligible(cached, ctx) == TRUE

\* lookup: "if cached.context and cached.context != self._current_context:
\* continue"
Eligible(cached, ctx) == ~(cached.context # <<>> /\ cached.context # ctx)

\* lookup, 1: exact match
ExactMatch(cached, input_lower) ==
    ~cached.is_pattern /\ cached.trigger = input_lower

\* lookup, 2: pattern match; re.error makes the loop continue
PatternMatch(cached, input_lower) ==
    cached.is_pattern /\ ~ReError(cached.trigger) /\ ReSearch(cached.trigger, input_lower)

\* self._similarity(a, b) >= self._similarity_threshold, where the ratio of
\* SequenceMatcher is 2.0 * matches / total, 1.0 for two empty strings, and
\* the threshold is 0.75
Similar(a, b) ==
    IF Len(a) + Len(b) = 0 THEN TRUE
    ELSE 8 * MatchingChars(Lower(a), Lower(b)) >= 3 * (Len(a) + Len(b))

\* the explanation_triggers of load_slide_explanations; the a-umlaut of the
\* last is written a
explanation_triggers ==
    << Str("explain this"), Str("what does this mean"), Str("what's on this slide"),
       Str("can you explain"), Str("i don't understand"), Str("was bedeutet das"),
       Str("erklare das") >>

\* the arguments of the add_response calls of the model
Items ==
    { [trigger |-> Str("abba"), response |-> Str("r1"), is_pattern |-> FALSE,
       context |-> <<>>, priority |-> 0, audio_url |-> <<>>],
      [trigger |-> Str("ABB"), response |-> Str("r2"), is_pattern |-> FALSE,
       context |-> <<>>, priority |-> 1, audio_url |-> <<>>],
      [trigger |-> Str("abba"), response |-> Str("r3"), is_pattern |-> FALSE,
       context |-> Str("s1"), priority |-> 0, audio_url |-> Str("u1")],
      [trigger |-> Str("Ab|x"), response |-> Str("r4"), is_pattern |-> TRUE,
       context |-> Str("s2"), priority |-> 1, audio_url |-> <<>>],
      [trigger |-> Str("("), response |-> Str("r5"), is_pattern |-> TRUE,
       context |-> <<>>, priority |-> 10, audio_url |-> <<>>] }

\* lesson data: without "cachedResponses", with one item, with two
Lessons ==
    {<<>>} \cup {<<item>> : item \in Items}
           \cup {<<i1, i2>> : i1 \in {it \in Items : it.priority = 0},
                              i2 \in {it \in Items : it.priority > 0}}

\* slides: "id" may be missing, "explanation" and "notes" empty
SlideDecks ==
    { <<>>,
      << [id |-> Str("s1"), explanation |-> Str("e1"), notes |-> <<>>] >>,
      << [id |-> Str("s2"), explanation |-> <<>>, notes |-> <<>>],
         [id |-> Absent, explanation |-> <<>>, notes |-> Str("n1")] >> }

ContextTags == {<<>>, Str("s1"), Str("s2"), Str("slide_1")}

UserInputs ==
    {Str("abba"), Str(" ABB "), Str("x"), Str("explain this"), <<>>}

\* the literal triggers the model stores and the inputs as lookup compares
\* them
Triggers == {Lower(item.trigger) : item \in Items} \cup Range(explanation_triggers)

InputsLower == {Strip(Lower(t)) : t \in UserInputs}

\* Similar for each input and trigger, computed once
Similarity == [a \in InputsLower |-> [b \in Triggers |-> Similar(a, b)]]

\* lookup, 3: fuzzy match
FuzzyMatch(cached, input_lower) ==
    ~cached.is_pattern /\ Similarity[input_lower][cached.trigger]

\* the loop of lookup over self._responses from the i-th entry on
RECURSIVE LookupFrom(_, _, _, _)
LookupFrom(rs, i, ctx, input_lower) ==
    IF i > Len(rs) THEN [entry |-> Absent, how |-> "none"]
    ELSE IF ~Eligible(rs[i], ctx) THEN LookupFrom(rs, i + 1, ctx, input_lower)
    ELSE IF ExactMatch(rs[i], input_lower) THEN [entry |-> rs[i], how |-> "exact"]
    ELSE IF rs[i].is_pattern
         THEN IF PatternMatch(rs[i], input_lower)
              THEN [entry |-> rs[i], how |-> "pattern"]
              ELSE LookupFrom(rs, i + 1, ctx, input_lower)
    ELSE IF FuzzyMatch(rs[i], input_lower) THEN [entry |-> rs[i], how |-> "fuzzy"]
    ELSE LookupFrom(rs, i + 1, ctx, input_lower)

\* str(i) for one digit
Digit(i) == Str(SubSeq("0123456789", i + 1, i + 1))

\* the add_response arguments load_slide_explanations makes of the i-th
\* slide (counted from 0): one per trigger when the slide has an explanation
\* or notes
SlideItems(slide, i) ==
    LET slide_id == IF slide.id # Absent THEN slide.id ELSE Str("slide_") \o Digit(i)
        explanation == IF slide.explanation # <<>> THEN slide.explanation ELSE slide.notes
    IN  IF explanation # <<>>
        THEN [t \in 1..Len(explanation_triggers) |->
                [trigger |-> explanation_triggers[t], response |-> explanation,
                 is_pattern |-> FALSE, context |-> slide_id, priority |-> 5,
                 audio_url |-> <<>>]]
        ELSE <<>>

DeckItems(slides) == Flatten([i \in 1..Len(slides) |-> SlideItems(slides[i], i - 1)])

\* the entries of rs that load_slide_explanations made
Generated(rs) == SelectSeq(rs, LAMBDA r : r.response \in {Str("e1"), Str("n1")})

\* cache.set_context(context)
SetContext(ctx) ==
    /\ current_context' = ctx
    /\ UNCHANGED <<responses, answered, inserted>>
    /\ UNCHANGED <<cacheVars, tutorVars, composeVars, callVars>>

\* cache.add_response(trigger, response, is_pattern, context, priority, audio_url)
AddResponse(item) ==
    /\ responses' = add_response(responses, item)
    /\ inserted' = Inserted(inserted, <<NewEntry(item)>>)
    /\ UNCHANGED <<current_context, answered>>
    /\ UNCHANGED <<cacheVars, tutorVars, composeVars, callVars>>

\* cache.load_lesson_responses(lesson_data); items is
\* lesson_data.get("cachedResponses", [])
LoadLessonResponses(items) ==
    /\ responses' = AddEach(responses, items)
    /\ inserted' = Inserted(inserted, [i \in 1..Len(items) |-> NewEntry(items[i])])
    /\ UNCHANGED <<current_context, answered>>
    /\ UNCHANGED <<cacheVars, tutorVars, composeVars, callVars>>

\* cache.load_slide_explanations(slides)
LoadSlideExplanations(slides) ==
    /\ responses' = AddEach(responses, DeckItems(slides))
    /\ inserted' = Inserted(inserted, [i \in 1..Len(DeckItems(slides)) |->
                                          NewEntry(DeckItems(slides)[i])])
    /\ UNCHANGED <<current_context, answered>>
    /\ UNCHANGED <<cacheVars, tutorVars, composeVars, callVars>>

\* variant of Lookup in which a response is given once: the entry returned
\* is taken out of the stored responses
LookupOnce(user_input) ==
    /\ LET result == LookupFrom(responses, 1, current_context, Strip(Lower(user_input)))
       IN  /\ answered' = [input |-> user_input, entry |-> result.entry,
                           how |-> result.how]
           /\ responses' = SelectSeq(responses, LAMBDA e : e # result.entry)
    /\ UNCHANGED <<current_context, inserted>>
    /\ UNCHANGED <<cacheVars, tutorVars, composeVars, callVars>>

\* cached = cache.lookup(user_input)
Lookup(user_input) ==
    /\ LET result == LookupFrom(responses, 1, current_context, Strip(Lower(user_input)))
       IN  answered' = [input |-> user_input, entry |-> result.entry, how |-> result.how]
    /\ UNCHANGED <<responses, current_context, inserted>>
    /\ UNCHANGED <<cacheVars, tutorVars, composeVars, callVars>>

\* cache.clear()
ClearResponses ==
    /\ responses' = <<>>
    /\ current_context' = <<>>
    /\ inserted' = [p \in Priorities |-> <<>>]
    /\ UNCHANGED answered
    /\ UNCHANGED <<cacheVars, tutorVars, composeVars, callVars>>

\* the entries the callers put stay within the bound, and slides are loaded
\* into a cache that holds no slide explanations
Room(items, slides) ==
    /\ Len(responses) - Len(Generated(responses)) + Len(items) <= MaxAdds
    /\ slides # <<>> => Generated(responses) = <<>>

NextResponse ==
    \/ \E ctx \in ContextTags : SetContext(ctx)
    \/ \E item \in Items : Room(<<item>>, <<>>) /\ AddResponse(item)
    \/ \E items \in Lessons : Room(items, <<>>) /\ LoadLessonResponses(items)
    \/ \E slides \in SlideDecks : Room(<<>>, slides) /\ LoadSlideExplanations(slides)
    \/ \E user_input \in UserInputs : Lookup(user_input)
    \/ ClearResponses

(***************************************************************************)
(* Answer grading: GameContextManager._check_answer, and the grading steps *)
(* of ExerciseTracker.check_answer and VocabularyDriller.check_answer.     *)
(***************************************************************************)
NotGraded ==
    graded = [by |-> "none", student |-> <<>>, correct |-> <<>>,
              acceptable |-> <<>>, is_correct |-> FALSE]

\* a tolerance of two edits whatever the length
MaxErrorsTwo(correct) == 2

\* a tolerance of one edit whatever the length
MaxErrorsOne(correct) == 1

\* str.replace(old, new) for one-character old and new
Replace(s, old, new) == [i \in 1..Len(s) |-> IF s[i] = old THEN new ELSE s[i]]

Min3(a, b, c) == IF a <= b /\ a <= c THEN a ELSE IF b <= c THEN b ELSE c

\* the inner loop of _levenshtein: curr_row grows by one cell per character
\* of s2; cell n of the rows is the code's index n - 1
RECURSIVE CurrRow(_, _, _, _)
CurrRow(curr_row, prev_row, c1, s2) ==
    LET n == Len(curr_row)
    IN  IF n > Len(s2) THEN curr_row
        ELSE LET insertions == prev_row[n + 1] + 1
                 deletions == curr_row[n] + 1
                 substitutions == prev_row[n] + (IF c1 # s2[n] THEN 1 ELSE 0)
             IN  CurrRow(Append(curr_row, Min3(insertions, deletions, substitutions)),
                         prev_row, c1, s2)

\* the outer loop of _levenshtein: the row after the characters of s1 from
\* the first_th on
RECURSIVE LastRow(_, _, _, _)
LastRow(prev_row, s1, s2, first) ==
    IF first > Len(s1) THEN prev_row
    ELSE LastRow(CurrRow(<<first>>, prev_row, s1[first], s2), s1, s2, first + 1)

\* GameContextManager._levenshtein and VocabularyDriller._levenshtein
RECURSIVE Levenshtein(_, _)
Levenshtein(s1, s2) ==
    IF Len(s1) < Len(s2) THEN Levenshtein(s2, s1)
    ELSE IF Len(s2) = 0 THEN Len(s1)
    ELSE LET row == LastRow([n \in 1..(Len(s2) + 1) |-> n - 1], s1, s2, 1)
         IN  row[Len(row)]

\* max_errors of _check_answer
MaxErrors(correct) == IF Len(correct) < 8 THEN 1 ELSE 2

\* GameContextManager._check_answer
CheckAnswer(student, correct) ==
    IF student = correct THEN TRUE
    ELSE IF Replace(student, "'", "'") = Replace(correct, "'", "'") THEN TRUE
    ELSE Levenshtein(student, correct) <= MaxErrors(correct)

\* is_correct of ExerciseTracker.check_answer
ExerciseIsCorrect(student_answer, item) ==
    LET correct_answer == Lower(Strip(item.correctAnswer))
        acceptable == Append([n \in 1..Len(item.acceptableAnswers) |->
                                 Lower(Strip(item.acceptableAnswers[n]))],
                             correct_answer)
        student_lower == Lower(Strip(student_answer))
    IN  student_lower \in Range(acceptable)

\* is_correct of VocabularyDriller.check_answer
DrillIsCorrect(student_answer, answer) ==
    LET correct_answer == Lower(Strip(answer))
        student_lower == Lower(Strip(student_answer))
    IN  \/ student_lower = correct_answer
        \/ /\ Len(correct_answer) > 5
           /\ Levenshtein(student_lower, correct_answer) <= 2

\* the correct answers of the items graded
Answers == {Str("cat"), Str("word"), Str("garden"), Str("kitchen"),
            Str("sandwich"), Str("background")}

\* an exercise item may list further answers it accepts
AlsoAccepted(correct) == IF correct = Str("word") THEN {<<>>, <<Str("term")>>} ELSE {<<>>}

\* one character dropped, replaced or added
Deletions(w) == {SubSeq(w, 1, n - 1) \o SubSeq(w, n + 1, Len(w)) : n \in 1..Len(w)}
Substitutions(w) == {[w EXCEPT ![n] = "z"] : n \in 1..Len(w)}
Insertions(w) == {SubSeq(w, 1, n) \o <<"z">> \o SubSeq(w, n + 1, Len(w)) : n \in 0..Len(w)}
OneEdit(w) == Deletions(w) \cup Substitutions(w) \cup Insertions(w)

\* two adjacent characters exchanged
Swaps(w) == {[w EXCEPT ![n] = w[n + 1], ![n + 1] = w[n]] : n \in 1..(Len(w) - 1)}

\* what a student may say for an answer: the answer, the answer spoken with
\* a capital or a space, and the answers one, two and three edits away
Spoken(w) ==
    {w, Append(w, " "), <<"A">> \o Tail(w)}
        \cup OneEdit(w) \cup Swaps(w)
        \cup UNION {OneEdit(v) : v \in OneEdit(w)}
        \cup {<<"z", "z", "z">> \o SubSeq(w, 4, Len(w)), SubSeq(w, 4, Len(w)),
              <<"z", "z", "z">> \o w}

GameCheckAnswer(student, correct) ==
    /\ graded' = [by |-> "game", student |-> student, correct |-> correct,
                  acceptable |-> graded.acceptable,
                  is_correct |-> CheckAnswer(student, correct)]
    /\ UNCHANGED <<cacheVars, tutorVars, composeVars, respVars, matched, registered, checked>>

ExerciseCheckAnswer(student_answer, item) ==
    /\ graded' = [by |-> "exercise", student |-> student_answer,
                  correct |-> item.correctAnswer,
                  acceptable |-> item.acceptableAnswers,
                  is_correct |-> ExerciseIsCorrect(student_answer, item)]
    /\ UNCHANGED <<cacheVars, tutorVars, composeVars, respVars, matched, registered, checked>>

DrillCheckAnswer(student_answer, answer) ==
    /\ graded' = [by |-> "drill", student |-> student_answer, correct |-> answer,
                  acceptable |-> graded.acceptable,
                  is_correct |-> DrillIsCorrect(student_answer, answer)]
    /\ UNCHANGED <<cacheVars, tutorVars, composeVars, respVars, matched, registered, checked>>

\* an answer a student gives to an item, not graded yet
Asked ==
    graded \in {[by |-> "none", student |-> student, correct |-> correct,
                 acceptable |-> also, is_correct |-> FALSE] :
                    student \in UNION {Spoken(w) : w \in Answers},
                    correct \in Answers, also \in {<<>>, <<Str("term")>>}}
    /\ graded.student \in Spoken(graded.correct)
    /\ graded.acceptable \in AlsoAccepted(graded.correct)

NextGrading ==
    \/ GameCheckAnswer(graded.student, graded.correct)
    \/ ExerciseCheckAnswer(graded.student,
                           [correctAnswer |-> graded.correct,
                            acceptableAnswers |-> graded.acceptable])
    \/ DrillCheckAnswer(graded.student, graded.correct)

(***************************************************************************)
(* The lesson index on its own: load_index and match_query.                *)
(***************************************************************************)
NotMatched == matched = [called |-> FALSE, text |-> <<>>, index |-> <<>>, lessons |-> <<>>]

NotChecked ==
    /\ registered = [rlm |-> <<>>, general |-> <<>>]
    /\ checked = [op |-> "none", text |-> <<>>, data |-> <<>>, before |-> <<>>,
                  result |-> <<>>, raised |-> FALSE]

\* nothing was graded, matched, loaded or checked yet
NoCalls == NotGraded /\ NotMatched /\ NotChecked

\* an item of "knowledgeBases:getAvatarLessonIndex"
IndexItem(id, title, exerciseCount, vocabularyCount, grammarCount, keywords) ==
    [id |-> id, title |-> title, exerciseCount |-> exerciseCount,
     vocabularyCount |-> vocabularyCount, grammarCount |-> grammarCount,
     keywords |-> keywords]

\* the curriculum units a backend can hold: keywords only, keywords and
\* exercises, an empty keyword and grammar, vocabulary only, and nothing
Units ==
    { IndexItem(Str("u1"), Str("Modals"), 0, 0, 0, <<Str("modal"), Str("verb")>>),
      IndexItem(Str("u2"), Str("Babies"), 1, 0, 0, <<Str("baby")>>),
      IndexItem(Str("u3"), Str("Verbs"), 0, 0, 1, <<<<>>, Str("verb")>>),
      IndexItem(Str("u4"), Str("Words"), 0, 2, 0, <<>>),
      IndexItem(Str("u5"), Str("Songs"), 0, 0, 0, <<>>) }

\* the index data of a backend: up to MaxLessons different units in any order
IndexData ==
    UNION { {s \in [1..n -> Units] : \A i, j \in 1..n : s[i] = s[j] => i = j} :
            n \in 0..MaxLessons }

MatchTexts ==
    { Str("explain the modal verb rule"), Str("what's for lunch"), Str("Baby quiz"),
      Str("a word for BABY"), Str("the latest"), Str("a verb for baby"), <<>> }

\* LessonKnowledgeManager.load_index: raises is the query failing
LoadIndex(index_data, raises) ==
    /\ lesson_index' =
          IF raises \/ index_data = <<>> THEN lesson_index
          ELSE [i \in 1..Len(index_data) |->
                   LessonIndex(index_data[i].id, index_data[i].title,
                               index_data[i].exerciseCount,
                               index_data[i].vocabularyCount,
                               index_data[i].grammarCount, index_data[i].keywords)]
    /\ matched' = [called |-> FALSE, text |-> <<>>, index |-> <<>>, lessons |-> <<>>]
    /\ UNCHANGED <<initialized, rlm, general, content_cache, context, origin, composed,
                   waiting, served, sessions>>
    /\ UNCHANGED <<cacheVars, tutorVars, respVars, graded, registered, checked>>

\* a call of LessonKnowledgeManager.match_query
CallMatchQuery(user_text) ==
    /\ matched' = [called |-> TRUE, text |-> user_text, index |-> lesson_index,
                   lessons |-> MatchQuery(lesson_index, user_text)]
    /\ UNCHANGED <<cacheVars, tutorVars, composeVars, respVars, graded, registered, checked>>

NextMatch ==
    \/ \E index_data \in IndexData : \E raises \in BOOLEAN : LoadIndex(index_data, raises)
    \/ \E user_text \in MatchTexts : CallMatchQuery(user_text)

(***************************************************************************)
(* Mistake patterns: RLMKnowledgeProvider.load and check_mistakes,         *)
(* GeneralKnowledgeBase._load_mistakes and check_for_mistakes.             *)
(***************************************************************************)
\* the loop of load over mistake_patterns: the list the provider holds
\* after it, and whether building a pattern raised, which ends the load
RECURSIVE LoadPatterns(_, _)
LoadPatterns(stored, mistake_patterns) ==
    IF mistake_patterns = <<>> THEN [stored |-> stored, raised |-> FALSE]
    ELSE LET pattern_data == Head(mistake_patterns)
         IN  IF ReCompile(pattern_data.pattern) \notin {"compiled", "re.error"}
             THEN [stored |-> stored, raised |-> TRUE]
             ELSE LET pattern == RLMMistakePattern(pattern_data.pattern,
                                                   pattern_data.correction,
                                                   pattern_data.explanation,
                                                   pattern_data.category)
                  IN  LoadPatterns(IF pattern.compiled_pattern
                                   THEN Append(stored, pattern) ELSE stored,
                                   Tail(mistake_patterns))

\* the keys of a dict lowercased
LowerKeys(d) == [i \in 1..Len(d) |-> [key |-> Lower(d[i].key), value |-> d[i].value]]

\* RLMKnowledgeProvider.load: the provider after it and whether it raised;
\* rlm_data is Absent for data that is None or empty
RlmLoad(p, rlm_data) ==
    IF rlm_data = Absent THEN [provider |-> p, raised |-> FALSE]
    ELSE LET patterns == LoadPatterns(p.mistake_patterns, rlm_data.mistakePatterns)
             indexed ==
                 [p EXCEPT
                    !.grammar_by_keyword = DictExtend(@, LowerKeys(rlm_data.grammarIndex)),
                    !.vocab_by_term = DictUpdate(@, LowerKeys(rlm_data.vocabularyByTerm)),
                    !.vocab_by_term_de = DictUpdate(@, LowerKeys(rlm_data.vocabularyByTermDe)),
                    !.mistake_patterns = patterns.stored]
         IN  [provider |-> IF patterns.raised THEN indexed
                           ELSE [indexed EXCEPT !.knowledge_bases = @ + 1],
              raised |-> patterns.raised]

\* the entries of "mistakePatterns": two words, the second in capitals, an
\* unbalanced parenthesis and a repetition count too large
PatternData ==
    { [pattern |-> Str("ab"), correction |-> Str("c1"), explanation |-> Str("e3"),
       category |-> Str("k1")],
      [pattern |-> Str("BA"), correction |-> Str("c3"), explanation |-> Str("e4"),
       category |-> Str("k2")],
      [pattern |-> Str("(ab"), correction |-> Str("c4"), explanation |-> Str("e5"),
       category |-> Str("k1")],
      [pattern |-> Str("a{99999999999}"), correction |-> Str("c5"),
       explanation |-> Str("e7"), category |-> Str("k2")] }

\* the rlmOptimized data with up to n mistake patterns, and no data
RlmData(n) ==
    {Absent} \cup
    { [grammarIndex |-> <<>>, vocabularyByTerm |-> <<>>, vocabularyByTermDe |-> <<>>,
       mistakePatterns |-> ps] : ps \in UNION {[1..k -> PatternData] : k \in 1..n} }

\* the mistakes a caller loads: the second has the pattern of the built-in
\* mistake but for its case
Mistakes ==
    { CommonMistake(Str("m2"), Str("ba"), Str("c6"), Str("e8")),
      CommonMistake(Str("m3"), Str("AB"), Str("c7"), Str("e9")),
      CommonMistake(Str("m4"), Str("verb"), Str("c8"), Str("e2")) }

MistakeLists(n) == UNION {[1..k -> Mistakes] : k \in 1..n}

MistakeTexts == {Str("Abba  baby"), Str("ab"), Str("a verb")}

\* the get_context_for_query calls that only check for mistakes
MistakeQueries ==
    {q \in Queries : /\ q.user_text \in MistakeTexts
                     /\ q.check_mistakes
                     /\ ~q.include_lesson /\ ~q.include_grammar /\ ~q.include_vocabulary}

NoMistakes(rlm_data) == IF rlm_data = Absent THEN <<>> ELSE rlm_data.mistakePatterns

\* provider.load(rlm_data)
CallLoad(rlm_data) ==
    LET loaded == RlmLoad(rlm, rlm_data)
    IN  /\ rlm' = loaded.provider
        /\ registered' = [registered EXCEPT !.rlm = @ \o NoMistakes(rlm_data)]
        /\ checked' = [op |-> "load", text |-> <<>>, data |-> NoMistakes(rlm_data),
                       before |-> rlm.mistake_patterns, result |-> <<>>,
                       raised |-> loaded.raised]
        /\ UNCHANGED <<initialized, general, lesson_index, content_cache, context, origin,
                       composed, waiting, served, sessions>>
        /\ UNCHANGED <<cacheVars, tutorVars, respVars, graded, matched>>

\* self._load_mistakes(data) with the mistakes the items of data make
CallLoadMistakes(data) ==
    /\ general' = LoadMistakes(general, data)
    /\ registered' = [registered EXCEPT !.general = @ \o data]
    /\ checked' = [op |-> "_load_mistakes", text |-> <<>>, data |-> data,
                   before |-> <<>>, result |-> <<>>, raised |-> FALSE]
    /\ UNCHANGED <<initialized, rlm, lesson_index, content_cache, context, origin,
                   composed, waiting, served, sessions>>
    /\ UNCHANGED <<cacheVars, tutorVars, respVars, graded, matched>>

\* provider.check_mistakes(text)
CallCheckMistakes(text) ==
    /\ checked' = [op |-> "check_mistakes", text |-> text, data |-> <<>>,
                   before |-> <<>>, result |-> RlmCheckMistakes(rlm, text),
                   raised |-> FALSE]
    /\ UNCHANGED <<cacheVars, tutorVars, composeVars, respVars, graded, matched, registered>>

\* general.check_for_mistakes(text)
CallCheckForMistakes(text) ==
    /\ checked' = [op |-> "check_for_mistakes", text |-> text, data |-> <<>>,
                   before |-> <<>>, result |-> GeneralCheckForMistakes(general, text),
                   raised |-> FALSE]
    /\ UNCHANGED <<cacheVars, tutorVars, composeVars, respVars, graded, matched, registered>>

\* a provider on its own: loads and checks
NextLoad ==
    \/ \E rlm_data \in RlmData(MaxPatterns) :
          /\ Len(registered.rlm) + Len(NoMistakes(rlm_data)) <= MaxPatterns
          /\ CallLoad(rlm_data)
    \/ \E text \in MistakeTexts \cup {<<>>} : CallCheckMistakes(text)

\* a session of an avatar with no knowledge linked, the loads that add to
\* what its provider and base hold, and the checks
NextMistakes ==
    \/ Initialize(Backends[1])
    \/ \E rlm_data \in RlmData(MaxMistakes) :
          /\ initialized
          /\ Len(registered.rlm) + Len(NoMistakes(rlm_data)) <= MaxMistakes
          /\ CallLoad(rlm_data)
    \/ \E data \in MistakeLists(MaxMistakes) :
          /\ initialized
          /\ Len(registered.general) + Len(data) <= MaxMistakes
          /\ CallLoadMistakes(data)
    \/ \E text \in MistakeTexts \cup {<<>>} : CallCheckMistakes(text)
    \/ \E text \in MistakeTexts \cup {<<>>} : CallCheckForMistakes(text)
    \/ \E q \in MistakeQueries : initialized /\ GetContextForQuery(q)

(***************************************************************************)
(* initialize() with loads that fail or give no data.                      *)
(***************************************************************************)
\* default_grammar and default_mistakes of _load_builtin_defaults: the model
\* keeps the first default rule and the first default mistake
BuiltinGrammar ==
    << GrammarRule(Str("present_simple"), Str("Present Simple Tense"), Str("tenses"),
                   Str("A1"), Str("e0"), Str("f0"),
                   << [correct |-> Str("ok"), incorrect |-> Str("no")] >>,
                   <<Str("present"), Str("simple")>>) >>

BuiltinMistakes ==
    << CommonMistake(Str("become_bekommen"), Str("become"), Str("get/receive"), Str("e0")) >>

\* GeneralKnowledgeBase._load_builtin_defaults
LoadBuiltinDefaults(g) == LoadMistakes(LoadGrammar(g, BuiltinGrammar), BuiltinMistakes)

\* what a query of the bulk loaders does: give data, give nothing, or raise
Outcomes == {"data", "nothing", "raises"}

\* GeneralKnowledgeBase.load_from_convex on the base g: loaded is what the
\* backend holds, replies what each of the three queries does
LoadFromConvex(g, loaded, replies) ==
    IF replies.grammar = "raises" THEN LoadBuiltinDefaults(g)
    ELSE LET g1 == IF replies.grammar = "data"
                   THEN LoadGrammar(g, DictValues(loaded.grammar_rules)) ELSE g
         IN  IF replies.vocabulary = "raises" THEN LoadBuiltinDefaults(g1)
             ELSE LET g2 == IF replies.vocabulary = "data"
                            THEN LoadVocabulary(g1, DictValues(loaded.vocabulary))
                            ELSE g1
                  IN  IF replies.mistakes = "raises" THEN LoadBuiltinDefaults(g2)
                      ELSE IF replies.mistakes = "data"
                           THEN LoadMistakes(g2, DictValues(loaded.mistake_patterns))
                           ELSE g2

\* load_rlm_from_convex on the provider p: the avatar query raises, the
\* avatar has no knowledge bases, or their contents are loaded
LoadRlmFromConvex(p, loaded, reply) == IF reply = "data" THEN LoadRlm(p, loaded) ELSE p

\* the replies of the five loads of one initialize(): of the three queries
\* of the base, all give data, all give nothing, or one of them gives
\* nothing or raises
Replying ==
    {r \in [rlm : Outcomes, grammar : Outcomes, vocabulary : Outcomes,
            mistakes : Outcomes, index : Outcomes] :
        \/ {r.grammar, r.vocabulary, r.mistakes} \in {{"data"}, {"nothing"}}
        \/ Cardinality({k \in {"grammar", "vocabulary", "mistakes"} : r[k] # "data"}) = 1}

\* await knowledge.initialize(avatar_id), the first of the process, with
\* loads that can fail
InitializeWith(backend, replies) ==
    /\ ~initialized
    /\ rlm' = LoadRlmFromConvex(rlm, backend.rlm, replies.rlm)
    /\ general' = LoadFromConvex(general, backend.general, replies)
    /\ lesson_index' = IF replies.index = "data" /\ backend.lesson_index # <<>>
                       THEN backend.lesson_index ELSE lesson_index
    /\ initialized' = TRUE
    /\ checked' = [op |-> "initialize", text |-> <<>>, data |-> replies, before |-> <<>>,
                   result |-> <<>>, raised |-> FALSE]
    /\ UNCHANGED <<content_cache, context, origin, composed, waiting, served, sessions>>
    /\ UNCHANGED <<cacheVars, tutorVars, respVars, graded, matched, registered>>

\* texts that the default rule, the default mistake and the backends' data
\* answer
InitTexts == {Str("Tenses"), Str("become"), Str("baby"), Str("verb")}

InitQueries ==
    UNION { {[user_text |-> t, include_lesson |-> TRUE, include_grammar |-> TRUE,
              include_vocabulary |-> TRUE, check_mistakes |-> TRUE, order |-> o] :
                o \in SetOrders(SearchTerms(t))} : t \in InitTexts }

NextInit ==
    \/ \E backend \in Range(Backends) : \E replies \in Replying :
          InitializeWith(backend, replies)
    \/ \E q \in InitQueries : GetContextForQuery(q)

(***************************************************************************)
(* Cancellation of a turn: task.cancel() raises CancelledError inside the  *)
(* task at the await it is suspended in. The blocks under the cache lock   *)
(* hold no await, so the only suspensions are "await fetch_fn()" in        *)
(* get_or_fetch and "await self.convex.query(...)" in get_content.         *)
(***************************************************************************)
\* variant of CancelFetch in which the cancelled call stores an empty result
\* on its way out
CancelStoring(i) ==
    /\ i \in 1..Len(fetching)
    /\ fetching' = Left(i)
    /\ cache' = SetCache(cache, fetching[i].key, None, now, max_size)
    /\ touch' = Touched(touch, fetching[i].key, cache')
    /\ last' = Returned("get_or_fetch", "cancelled", fetching[i].key, None, FALSE,
                        now, FALSE, FALSE)
    /\ UNCHANGED <<max_size, ttl_seconds, lock, now, watch>>
    /\ UNCHANGED <<tutorVars, composeVars, respVars, callVars>>

\* the i-th suspended get_or_fetch is cancelled: CancelledError leaves
\* "await fetch_fn()" and get_or_fetch, set() is not called
CancelFetch(i) ==
    /\ i \in 1..Len(fetching)
    /\ fetching' = Left(i)
    /\ last' = Returned("get_or_fetch", "cancelled", fetching[i].key, None, FALSE,
                        now, FALSE, FALSE)
    /\ UNCHANGED <<max_size, ttl_seconds, cache, lock, now, touch, watch>>
    /\ UNCHANGED <<tutorVars, composeVars, respVars, callVars>>

\* the i-th waiting get_content is cancelled: CancelledError is no Exception,
\* so neither ConvexClient.query nor get_content catches it, and nothing is
\* stored
CancelContent(i) ==
    /\ i \in 1..Len(waiting)
    /\ waiting' = SubSeq(waiting, 1, i - 1) \o SubSeq(waiting, i + 1, Len(waiting))
    /\ served' = IF watch = "cancel"
                 THEN [id |-> waiting[i], content |-> Absent, queries |-> 1,
                       raised |-> TRUE]
                 ELSE served
    /\ UNCHANGED <<initialized, rlm, general, lesson_index, content_cache, context,
                   origin, composed, sessions>>
    /\ UNCHANGED <<cacheVars, tutorVars, respVars, callVars>>

(***************************************************************************)
(* Grammar lookups on loaded indexes.                                      *)
(***************************************************************************)
\* Tier 1 rule number n of a knowledge base
RlmRule(n) == RLMGrammarRule(<<"r", n>>, Str("e"), <<>>, Str("B1"))

\* rlmOptimized data with a grammar index: three rules under "modal" and
\* three under "verb"; one rule under both keywords; two rules under "Verb"
GrammarIndexes ==
    { << [key |-> Str("modal"), value |-> <<RlmRule("1"), RlmRule("2"), RlmRule("3")>>],
         [key |-> Str("verb"), value |-> <<RlmRule("4"), RlmRule("5"), RlmRule("6")>>] >>,
      << [key |-> Str("modal"), value |-> <<RlmRule("1")>>],
         [key |-> Str("verb"), value |-> <<RlmRule("1")>>] >>,
      << [key |-> Str("Verb"), value |-> <<RlmRule("7"), RlmRule("8")>>] >> }

GrammarData ==
    { [grammarIndex |-> ix, vocabularyByTerm |-> <<>>, vocabularyByTermDe |-> <<>>,
       mistakePatterns |-> <<>>] : ix \in GrammarIndexes }

\* Tier 2 rule n with its name, category and keywords
GeneralRule(n, name, category, keywords) ==
    GrammarRule(<<"g", n>>, name, category, Str("A1"), Str("e"), Str("f"), <<>>, keywords)

\* what getGeneralGrammarRules gives: six rules of the category "modal" with
\* the keyword "verb"; a rule named "Tense" with the keyword "past"
GeneralData ==
    { << GeneralRule("1", Str("n1"), Str("modal"), <<Str("verb")>>),
         GeneralRule("2", Str("n2"), Str("modal"), <<Str("verb")>>),
         GeneralRule("3", Str("n3"), Str("modal"), <<Str("Verb")>>),
         GeneralRule("4", Str("n4"), Str("modal"), <<Str("verb")>>),
         GeneralRule("5", Str("n5"), Str("modal"), <<Str("verb")>>),
         GeneralRule("6", Str("n6"), Str("modal"), <<Str("verb"), Str("modal")>>) >>,
      << GeneralRule("7", Str("Tense"), Str("tenses"), <<Str("past")>>) >> }

GrammarQueries ==
    {Str("modal verb"), Str("Verb"), Str("tense"), Str("tense verb"), Str("gerund")}


\* self._load_grammar(data)
CallLoadGrammar(data) ==
    /\ general' = LoadGrammar(general, data)
    /\ checked' = [op |-> "_load_grammar", text |-> <<>>, data |-> <<>>,
                   before |-> <<>>, result |-> <<>>, raised |-> FALSE]
    /\ UNCHANGED <<initialized, rlm, lesson_index, content_cache, context, origin,
                   composed, waiting, served, sessions>>
    /\ UNCHANGED <<cacheVars, tutorVars, respVars, graded, matched, registered>>

\* rlm.lookup_grammar(query), the set search_terms iterated in the given
\* order: the order of a set of str follows the strings' hashes, which
\* differ from one interpreter run to the next
CallRlmLookupGrammar(query, order) ==
    /\ checked' = [op |-> "rlm.lookup_grammar", text |-> query, data |-> order,
                   before |-> <<>>, result |-> RlmLookupGrammar(rlm, query, order),
                   raised |-> FALSE]
    /\ UNCHANGED <<cacheVars, tutorVars, composeVars, respVars, graded, matched, registered>>

\* general.lookup_grammar(query)
CallGeneralLookupGrammar(query) ==
    /\ checked' = [op |-> "general.lookup_grammar", text |-> query, data |-> <<>>,
                   before |-> <<>>, result |-> GeneralLookupGrammar(general, query),
                   raised |-> FALSE]
    /\ UNCHANGED <<cacheVars, tutorVars, composeVars, respVars, graded, matched, registered>>

NextGrammar ==
    \/ \E rlm_data \in GrammarData :
          /\ rlm.knowledge_bases < MaxLoads
          /\ CallLoad(rlm_data)
    \/ \E data \in GeneralData :
          /\ ~DictHas(general.grammar_rules, Head(data).id)
          /\ CallLoadGrammar(data)
    \/ \E query \in GrammarQueries : \E order \in SetOrders(SearchTerms(query)) :
          CallRlmLookupGrammar(query, order)
    \/ \E query \in GrammarQueries : CallGeneralLookupGrammar(query)

(***************************************************************************)
(* format_for_context on lesson content of growing size.                   *)
(***************************************************************************)

\* n copies of x
Copies(n, x) == [i \in 1..n |-> x]

\* jsonContent with an exercise of sizes[i] items for every i, a grammar
\* rule of examples[i] examples for every i, and words vocabulary entries
Content(sizes, examples, words) ==
    [metadata |-> [title |-> Str("t"), level |-> Str("A1"), topic |-> Str("t1")],
     content |->
       [exercises |->
            [i \in 1..Len(sizes) |->
                [title |-> Str("x"), type |-> Str("gap"), instructions |-> Str("i"),
                 items |-> Copies(sizes[i], [question |-> Str("q"),
                                             correctAnswer |-> Str("a"),
                                             explanation |-> <<>>])]],
        grammarRules |->
            [i \in 1..Len(examples) |->
                [name |-> Str("n"), category |-> Str("c"), formula |-> Str("f"),
                 rule |-> Str("r"),
                 examples |-> Copies(examples[i], [correct |-> Str("ok"),
                                                   incorrect |-> <<>>,
                                                   explanation |-> <<>>])]],
        vocabulary |-> Copies(words, [term |-> Str("w"), termDe |-> Str("d"),
                                      definition |-> Str("e"),
                                      exampleSentence |-> <<>>])]]

\* lists at, one under and one over the length format_for_context cuts at
Contents ==
    { Content(sizes, examples, words) :
        sizes \in UNION {[1..k -> {1, MaxItems - 1, MaxItems}] : k \in 0..MaxExercises},
        examples \in UNION {[1..k -> {0, MaxExamples - 1, MaxExamples}] : k \in 0..MaxRules},
        words \in {0, MaxVocabulary - 1, MaxVocabulary} }

\* the content to format is fetched and nothing is formatted yet
Fetched ==
    /\ registered = [rlm |-> <<>>, general |-> <<>>]
    /\ checked \in {[op |-> "none", text |-> <<>>, data |-> json_content,
                     before |-> <<>>, result |-> <<>>, raised |-> FALSE] :
                       json_content \in Contents}

\* self._lesson_manager.format_for_context(json_content), as
\* get_context_for_query calls it on the content get_content returned
CallFormatForContext ==
    /\ checked' = [op |-> "format_for_context", text |-> <<>>, data |-> checked.data,
                   before |-> <<>>, result |-> FormatForContext(checked.data),
                   raised |-> FALSE]
    /\ UNCHANGED <<cacheVars, tutorVars, composeVars, respVars, graded, matched, registered>>

(***************************************************************************)
(* The queries of a session, on loaded indexes and stored responses.       *)
(***************************************************************************)
\* rlm.lookup_vocabulary(term) and general.lookup_vocabulary(term)
CallLookupVocabulary(term) ==
    /\ checked' = [op |-> "lookup_vocabulary", text |-> term, data |-> <<>>,
                   before |-> <<>>,
                   result |-> <<RlmLookupVocabulary(rlm, term),
                                GeneralLookupVocabulary(general, term)>>,
                   raised |-> FALSE]
    /\ UNCHANGED <<cacheVars, tutorVars, composeVars, respVars, graded, matched, registered>>

(***************************************************************************)
(* ExerciseTracker: one exercise at a time, its items answered in order.   *)
(***************************************************************************)
\* what a call returned: the fields of the result dict the properties read
\* (error is "" where the dict has no "error", score is 0 where it has no
\* "score"), for the driller the answer it graded against and the question
\* it presented, for the game handler the action type
Told(call, error, correct, complete, score) ==
    [call |-> call, error |-> error, correct |-> correct, complete |-> complete,
     score |-> score, against |-> <<>>, question |-> Absent, action |-> "none"]

\* ExerciseTracker(), VocabularyDriller() and AvatarGameHandler(): nothing
\* started
NoTutoring ==
    /\ exercise = Absent
    /\ drill = Absent
    /\ game = Absent
    /\ told = Told("none", "", FALSE, FALSE, 0)

\* ExerciseState(items=items)
ExerciseState(items) == [items |-> items, current_item_index |-> 0, attempts |-> <<>>]

\* the id of an item dict that has no key "id"
NoId == <<"no id">>

\* item.get("id", "unknown")
ItemId(item) == IF item.id = NoId THEN Str("unknown") ELSE item.id

\* int((correct / total) * 100): the float product truncated, which for
\* every total below 50 is the integer quotient
IntPercent(correct, total) == (100 * correct) \div total

\* ExerciseTracker._calculate_score on the state ex
CalculateScore(ex) ==
    IF ex = Absent \/ ex.items = <<>> THEN 0
    ELSE LET first_correct == {ex.attempts[n].item_id :
                                  n \in {m \in 1..Len(ex.attempts) : ex.attempts[m].correct}}
         IN  IntPercent(Cardinality(first_correct), Len(ex.items))

\* the index that stays where it is
NextIndexAlways(index, is_correct) == index + 1

\* "if is_correct: self.current.current_item_index += 1"
NextIndex(index, is_correct) == IF is_correct THEN index + 1 ELSE index

\* await tracker.start_exercise(content_id, exercise_id, title, items); the
\* startExercise mutation may raise, and start_exercise with it
StartExercise(items, raises) ==
    /\ exercise' = IF raises THEN exercise ELSE ExerciseState(items)
    /\ told' = Told("start_exercise", IF raises THEN "raised" ELSE "", FALSE, FALSE, 0)
    /\ UNCHANGED <<drill, game>>
    /\ UNCHANGED <<cacheVars, composeVars, respVars, callVars>>

\* await tracker.check_answer(student_answer); a recordAttempt mutation
\* that raises is logged and changes nothing
ExerciseCheck(student_answer) ==
    /\ IF exercise = Absent
       THEN /\ told' = Told("exercise.check_answer", "No active exercise", FALSE, FALSE, 0)
            /\ UNCHANGED exercise
       ELSE IF exercise.current_item_index >= Len(exercise.items)
       THEN /\ told' = Told("exercise.check_answer", "No more items", FALSE, FALSE, 0)
            /\ UNCHANGED exercise
       ELSE LET item == exercise.items[exercise.current_item_index + 1]
                is_correct == ExerciseIsCorrect(student_answer, item)
                after == [exercise EXCEPT
                            !.attempts = Append(@, [item_id |-> ItemId(item),
                                                    answer |-> student_answer,
                                                    correct |-> is_correct]),
                            !.current_item_index = NextIndex(@, is_correct)]
                complete == is_correct /\ after.current_item_index >= Len(after.items)
            IN  /\ exercise' = after
                /\ told' = Told("exercise.check_answer", "", is_correct, complete,
                                IF complete THEN CalculateScore(after) ELSE 0)
    /\ UNCHANGED <<drill, game>>
    /\ UNCHANGED <<cacheVars, composeVars, respVars, callVars>>

\* await tracker.complete()
ExerciseComplete ==
    /\ IF exercise = Absent
       THEN told' = Told("complete", "No active exercise", FALSE, FALSE, 0)
       ELSE told' = Told("complete", "", FALSE, TRUE, CalculateScore(exercise))
    /\ exercise' = Absent
    /\ UNCHANGED <<drill, game>>
    /\ UNCHANGED <<cacheVars, composeVars, respVars, callVars>>

\* an exercise item with its id, or without one
ExerciseItem(id, answer) ==
    [id |-> id, correctAnswer |-> answer, acceptableAnswers |-> <<>>]

\* the answers of the items, in the order of the items; past the last word
\* an item's answer is the last word again
ItemWords == [n \in 1..(MaxQuestions + 1) |->
                 IF n = 1 THEN Str("cat") ELSE IF n = 2 THEN Str("dog") ELSE Str("word")]

\* the exercises given to start_exercise: up to MaxQuestions items, each
\* with its own id, and one whose two items have no id
Exercises ==
    { [n \in 1..k |-> ExerciseItem(<<"i">> \o ItemWords[n], ItemWords[n])] :
         k \in 0..MaxQuestions }
    \cup { << ExerciseItem(NoId, Str("cat")), ExerciseItem(NoId, Str("dog")) >> }

\* what the student says
StudentAnswers == {Str(" Cat"), Str("dog"), Str("word"), Str("no")}

NextExercise ==
    \/ \E items \in Exercises, raises \in BOOLEAN : StartExercise(items, raises)
    \/ \E student_answer \in StudentAnswers :
          /\ exercise # Absent => Len(exercise.attempts) < MaxAttempts
          /\ ExerciseCheck(student_answer)
    \/ ExerciseComplete

(***************************************************************************)
(* VocabularyDriller: a shuffled list of vocabulary, asked one by one.     *)
(***************************************************************************)
\* VocabDrillState(mode=mode, items=items)
VocabDrillState(mode, items) ==
    [mode |-> mode, items |-> items, current_index |-> 0, results |-> <<>>]

\* what random.choice can return in _format_question
DrillModes == {"en_to_de", "de_to_en", "definition"}

\* VocabularyDriller._format_question(vocab, mode), where pick is what
\* random.choice returns if it is called; shown is the text the question is
\* about
FormatQuestion(vocab, mode, pick) ==
    LET chosen == IF mode = "mixed" THEN pick ELSE mode
    IN  IF chosen = "en_to_de"
        THEN [shown |-> vocab.term, answer |-> vocab.termDe, mode |-> chosen]
        ELSE IF chosen = "de_to_en"
        THEN [shown |-> vocab.termDe, answer |-> vocab.term, mode |-> chosen]
        ELSE [shown |-> vocab.definition, answer |-> vocab.term, mode |-> chosen]

\* the quality check_answer records: 5 for the exact answer, 4 for one
\* accepted with typos, 2 for a wrong one
Quality(student_answer, answer) ==
    IF DrillIsCorrect(student_answer, answer)
    THEN IF Lower(Strip(student_answer)) = Lower(Strip(answer)) THEN 5 ELSE 4
    ELSE 2

\* driller.start_drill(vocabulary, mode=mode): order is the order
\* random.shuffle leaves the copy in
StartDrill(vocabulary, mode, order, pick) ==
    LET items == [n \in 1..Len(vocabulary) |-> vocabulary[order[n]]]
    IN  /\ drill' = VocabDrillState(mode, items)
        /\ told' = IF items = <<>>
                   THEN Told("start_drill", "No vocabulary items to drill", FALSE, FALSE, 0)
                   ELSE [Told("start_drill", "", FALSE, FALSE, 0) EXCEPT
                            !.question = FormatQuestion(items[1], mode, pick)]
        /\ UNCHANGED <<exercise, game>>
        /\ UNCHANGED <<cacheVars, composeVars, respVars, callVars>>

\* await driller.check_answer(student_answer): pick is what random.choice
\* returns for the question graded, next_pick for the next question; a
\* recordVocabReview mutation that raises is logged and changes nothing
DrillCheck(student_answer, pick, next_pick) ==
    /\ IF drill = Absent
       THEN /\ told' = Told("drill.check_answer", "No active drill", FALSE, FALSE, 0)
            /\ UNCHANGED drill
       ELSE IF drill.current_index >= Len(drill.items)
       THEN /\ told' = Told("drill.check_answer", "Drill already completed", FALSE, FALSE, 0)
            /\ UNCHANGED drill
       ELSE LET item == drill.items[drill.current_index + 1]
                question == FormatQuestion(item, drill.mode, pick)
                is_correct == DrillIsCorrect(student_answer, question.answer)
                after == [drill EXCEPT
                            !.results = Append(@, [vocab_id |-> item.id,
                                                   correct |-> is_correct,
                                                   quality |-> Quality(student_answer,
                                                                       question.answer)]),
                            !.current_index = @ + 1]
                has_next == after.current_index < Len(after.items)
            IN  /\ drill' = IF has_next THEN after ELSE Absent
                /\ told' = [Told("drill.check_answer", "", is_correct, ~has_next, 0) EXCEPT
                              !.against = question.answer,
                              !.question =
                                  IF has_next
                                  THEN FormatQuestion(after.items[after.current_index + 1],
                                                      after.mode, next_pick)
                                  ELSE Absent]
    /\ UNCHANGED <<exercise, game>>
    /\ UNCHANGED <<cacheVars, composeVars, respVars, callVars>>

\* the vocabulary of the lesson drilled
DrillWords ==
    << [id |-> Str("v1"), term |-> Str("cat"), termDe |-> Str("Katze"),
        definition |-> Str("a pet")],
       [id |-> Str("v2"), term |-> Str("dog"), termDe |-> Str("Hund"),
        definition |-> Str("a friend")],
       [id |-> Str("v3"), term |-> Str("garden"), termDe |-> Str("Garten"),
        definition |-> Str("a yard")] >>

\* the lists given to start_drill: the first k words of the lesson
Vocabularies ==
    { SubSeq(DrillWords, 1, k) :
         k \in 0..(IF MaxWords < Len(DrillWords) THEN MaxWords ELSE Len(DrillWords)) }

\* what the student says in a drill
DrillAnswers == {Str("Katze"), Str(" cat"), Str("hund"), Str("dog"), Str("no")}

NextDrill ==
    \/ \E vocabulary \in Vocabularies, mode \in DrillModes \cup {"mixed"}, pick \in DrillModes :
          \E order \in SetOrders(1..Len(vocabulary)) :
             StartDrill(vocabulary, mode, order, pick)
    \/ \E student_answer \in DrillAnswers, pick \in DrillModes, next_pick \in DrillModes :
          DrillCheck(student_answer, pick, next_pick)

(***************************************************************************)
(* AvatarGameHandler and its GameContextManager: one game at a time.       *)
(***************************************************************************)
\* GameState(...) as load_game builds it from the game data: items are the
\* items of its config, an empty current_item is Absent
GameState(items, hints, hints_available) ==
    [items |-> items, total_items |-> Len(items), current_item_index |-> 0,
     correct_answers |-> 0, incorrect_answers |-> 0,
     hints_used |-> 0, hints_available |-> hints_available, hints |-> hints,
     current_item |-> IF items # <<>> THEN items[1] ELSE Absent]

\* GameContextManager._advance_to_next_item on the game g
AdvanceToNextItem(g) ==
    LET index == g.current_item_index + 1
    IN  [g EXCEPT !.current_item_index = index,
                  !.current_item = IF index < Len(g.items) THEN g.items[index + 1]
                                   ELSE Absent]

\* GameContextManager._get_next_hint: the game after it, and the hint
AfterHint(g) ==
    IF g.hints # <<>> /\ g.hints_used < Len(g.hints)
    THEN [g EXCEPT !.hints_used = @ + 1]
    ELSE g

\* GameContextManager.evaluate_answer on the game g with a current item
EvaluateAnswer(g, student_answer) ==
    LET correct_answer == g.current_item.correctAnswer
        is_correct == CheckAnswer(Strip(Lower(student_answer)), Strip(Lower(correct_answer)))
    IN  IF is_correct
        THEN AdvanceToNextItem([g EXCEPT !.correct_answers = @ + 1])
        ELSE LET counted == [g EXCEPT !.incorrect_answers = @ + 1]
             IN  IF counted.hints_used < counted.hints_available
                 THEN AfterHint(counted)
                 ELSE counted

\* texts that the patterns of QUIT_TRIGGERS, SKIP_TRIGGERS, HINT_TRIGGERS
\* and GAME_TRIGGERS_EN find in a message: "stopp?", "quit\s+(?:the\s+)?game",
\* "skip\s+(?:this)?", "move\s+on", "(?:give\s+me\s+a\s+)?hint",
\* "help\s+(?:me)?", "play\s+(?:a\s+)?game"
QUIT_TRIGGERS == {Str("stop"), Str("quit game")}
SKIP_TRIGGERS == {Str("skip "), Str("move on")}
HINT_TRIGGERS == {Str("hint"), Str("help ")}
GAME_TRIGGERS == {Str("play game"), Str("play a game")}

\* AvatarGameHandler._matches_pattern: re.search of each pattern in the text
MatchesPattern(text, patterns) == \E pattern \in patterns : Contains(pattern, text)

\* what process_message returned
Acted(action) == [Told("process_message", "", FALSE, FALSE, 0) EXCEPT !.action = action]

\* await handler.start_game(game_id): load_game on the game data the
\* getGame query returned, or ValueError when it returned none
LoadGame(items, hints, hints_available, is_found) ==
    /\ game' = IF is_found THEN GameState(items, hints, hints_available) ELSE game
    /\ told' = Told("start_game", IF is_found THEN "" ELSE "Game not found",
                    FALSE, FALSE, 0)
    /\ UNCHANGED <<exercise, drill>>
    /\ UNCHANGED <<cacheVars, composeVars, respVars, callVars>>

\* await handler.process_message(user_message, available_games);
\* is_available tells whether _select_game finds a game to start
ProcessMessage(user_message, is_available) ==
    LET msg_lower == Strip(Lower(user_message))
    IN  /\ IF game # Absent
           THEN IF MatchesPattern(msg_lower, QUIT_TRIGGERS)
                THEN /\ game' = Absent
                     /\ told' = Acted("quit")
                ELSE IF MatchesPattern(msg_lower, SKIP_TRIGGERS)
                THEN /\ game' = AdvanceToNextItem(game)
                     /\ told' = Acted("skip")
                ELSE IF MatchesPattern(msg_lower, HINT_TRIGGERS)
                THEN /\ game' = AfterHint(game)
                     /\ told' = Acted("hint")
                ELSE IF game.current_item_index >= game.total_items
                THEN /\ game' = Absent
                     /\ told' = [Acted("game_complete") EXCEPT !.complete = TRUE]
                ELSE IF game.current_item = Absent
                THEN /\ UNCHANGED game
                     /\ told' = [Acted("answer") EXCEPT !.error = "No active game"]
                ELSE /\ game' = EvaluateAnswer(game, user_message)
                     /\ told' = [Acted("answer") EXCEPT
                                   !.correct =
                                       CheckAnswer(msg_lower,
                                                   Strip(Lower(game.current_item.correctAnswer)))]
           ELSE /\ UNCHANGED game
                /\ told' = IF MatchesPattern(msg_lower, GAME_TRIGGERS) /\ is_available
                           THEN Acted("start_game")
                           ELSE Acted("none")
        /\ UNCHANGED <<exercise, drill>>
        /\ UNCHANGED <<cacheVars, composeVars, respVars, callVars>>

\* the items of the games loaded: the first k exercise words
GameItems ==
    { [n \in 1..k |-> ExerciseItem(<<"g">> \o ItemWords[n], ItemWords[n])] :
         k \in 0..MaxGameItems }

\* the hints of the games loaded
GameHints == {<<>>, <<Str("h1"), Str("h2")>>}

\* what the student says during a game
GameMessages ==
    {Str("Quit game"), Str("skip this"), Str("Hint"), Str("play a game"),
     Str(" Cat"), Str("dog"), Str("no")}

NextGame ==
    \/ \E items \in GameItems, hints \in GameHints, hints_available \in {1, 3},
          is_found \in BOOLEAN :
          LoadGame(items, hints, hints_available, is_found)
    \/ \E user_message \in GameMessages, is_available \in BOOLEAN :
          /\ game # Absent =>
                game.current_item_index + game.incorrect_answers < MaxMessages
          /\ ProcessMessage(user_message, is_available)

vars == <<cacheVars, composeVars, respVars, callVars, tutorVars>>

(***************************************************************************)
(* Specifications.  Spec: the cache under every interleaving of the calls  *)
(* and the clock.  SpecHistory: the same, recording what each call         *)
(* returned.  SpecRace: the calls at one clock reading, recording which    *)
(* get_or_fetch calls overlapped.  SpecLRU: a cache of WideSize entries    *)
(* and one key more.                                                       *)
(***************************************************************************)
Init == Constructed(1..MaxSize) /\ watch = "none" /\ NewIntegration /\ NewResponseCache /\ NoTutoring /\ NoCalls

Next ==
    \/ CallNext(Requests)
    \/ Tick

Spec == Init /\ [][Next]_vars

InitHistory == Constructed(1..MaxSize) /\ watch = "history" /\ NewIntegration /\ NewResponseCache /\ NoTutoring /\ NoCalls

SpecHistory == InitHistory /\ [][Next]_vars

InitRace == Constructed(1..MaxSize) /\ watch = "race" /\ NewIntegration /\ NewResponseCache /\ NoTutoring /\ NoCalls

SpecRace == InitRace /\ [][CallNext(Requests)]_vars

InitLRU == Constructed({WideSize}) /\ watch = "none" /\ NewIntegration /\ NewResponseCache /\ NoTutoring /\ NoCalls

InitCompose == Constructed({MaxSize}) /\ watch = "none" /\ NewIntegration /\ NewResponseCache /\ NoTutoring /\ NoCalls

SpecCompose == InitCompose /\ [][NextCompose]_vars

\* the content ids asked for: two the backend holds, one it does not
ContentIds == {Str("c1"), Str("c2"), Str("c3")}

\* the calls of get_context_for_query with every tier included
ContentQueries ==
    {q \in Queries : /\ q.include_lesson /\ q.include_grammar
                      /\ q.include_vocabulary /\ q.check_mistakes}

InitContent == Constructed({MaxSize}) /\ watch = "content" /\ NewIntegration /\ NewResponseCache /\ NoTutoring /\ NoCalls

NextContent ==
    \/ \E backend \in Range(Backends) : Initialize(backend)
    \/ \E content_id \in ContentIds : CallGetContent(content_id)
    \/ \E i \in 1..Len(waiting) : \E reply \in Replies(waiting[i]) : ContentReturn(i, reply)
    \/ \E q \in ContentQueries : GetContextForQuery(q)

\* the lesson content cache under overlapping get_content calls, recording
\* what each call returned
SpecContent == InitContent /\ [][NextContent]_vars

InitSessions == Constructed({MaxSize}) /\ watch = "sessions" /\ NewIntegration /\ NewResponseCache /\ NoTutoring /\ NoCalls

NextSessions ==
    \/ \E backend \in Range(Backends) : Initialize(backend)
    \/ \E backend \in Range(Backends), same \in BOOLEAN : InitializeAgain(backend, same)
    \/ \E q \in ContentQueries : GetContextForQuery(q)

\* one process in which initialize() runs more than once, and the lookups of
\* the KnowledgeIntegration initialized first
SpecSessions == InitSessions /\ [][NextSessions]_vars

\* the response cache under every order of its calls
SpecResponse == InitCompose /\ [][NextResponse]_vars

\* the gradings of an answer a student gives to an item
InitGrading ==
    Constructed({MaxSize}) /\ watch = "none" /\ NewIntegration /\ NewResponseCache /\ NoTutoring /\ Asked /\ NotMatched
    /\ NotChecked

SpecGrading == InitGrading /\ [][NextGrading]_vars

\* the lesson index under every reload and query
SpecMatch == InitCompose /\ [][NextMatch]_vars

\* the loads of one provider
SpecLoad == InitCompose /\ [][NextLoad]_vars

\* the mistake checks of a session
SpecMistakes == InitCompose /\ [][NextMistakes]_vars

\* the first initialize() of a process under every outcome of its loads,
\* and the queries after it
SpecInit == InitCompose /\ [][NextInit]_vars

\* the contexts a caller builds around a lesson text: the six Tier 1 and
\* Tier 2 fields each empty or set
LessonContexts ==
    {ctx \in Contexts : ctx.lesson_context # <<>> /\ ctx.session_progress = <<>>}

NextAdditive ==
    \/ \E backend \in Range(Backends) : Initialize(backend)
    \/ \E q \in ContentQueries : GetContextForQuery(q)
    \/ \E ctx \in LessonContexts : NewContext(ctx)
    \/ CallToString

\* the composer with every tier included, recording what get_content gave,
\* and the composition of contexts that hold lesson content
SpecAdditive == InitContent /\ [][NextAdditive]_vars

NextLRU ==
    \/ CallNext(WideRequests)
    \/ Tick

SpecLRU == InitLRU /\ [][NextLRU]_vars

\* two tasks' worth of calls on two keys while the clock runs: the behaviours
\* in which entries age, are read and are written again
AgeRequests ==
    { [query |-> <<"a">>, collection_ids |-> << <<"x">> >>],
      [query |-> <<"b">>, collection_ids |-> << <<"x">> >>] }

NextAge ==
    \/ CallNext(AgeRequests)
    \/ Tick

SpecAge == Init /\ [][NextAge]_vars

\* the calls of SpecAge with the history of the call that returned last
SpecFail == InitHistory /\ [][NextAge]_vars

\* the lesson whose content the turns ask for
TurnContent == {Str("c1")}

\* turns that fetch search results and lesson content, return, fail or are
\* cancelled while they wait
NextCancel ==
    \/ \E r \in AgeRequests : GetOrFetch(r)
    \/ \E i \in 1..NumTasks, v \in Values : FetchReturn(i, v)
    \/ \E i \in 1..NumTasks : FetchRaise(i)
    \/ \E i \in 1..NumTasks : CancelFetch(i)
    \/ \E content_id \in TurnContent : CallGetContent(content_id)
    \/ \E i \in 1..Len(waiting) : \E reply \in Replies(waiting[i]) : ContentReturn(i, reply)
    \/ \E i \in 1..NumTasks : CancelContent(i)
    \/ Tick

InitCancel == Constructed({MaxSize}) /\ watch = "cancel" /\ NewIntegration /\ NewResponseCache /\ NoTutoring /\ NoCalls

SpecCancel == InitCancel /\ [][NextCancel]_vars

\* the turns of on_user_turn_completed: "await self._rag_cache.get_or_fetch"
\* and "await self._lesson_manager.get_content", each awaited as it is, and
\* the replies or failures of what they wait for
NextTurn ==
    \/ \E r \in AgeRequests : GetOrFetch(r)
    \/ \E i \in 1..NumTasks, v \in Values : FetchReturn(i, v)
    \/ \E i \in 1..NumTasks : FetchRaise(i)
    \/ \E content_id \in TurnContent : CallGetContent(content_id)
    \/ \E i \in 1..Len(waiting) : \E reply \in Replies(waiting[i]) : ContentReturn(i, reply)
    \/ Tick

\* what the code makes sure of while a turn waits: the clock runs, and the
\* httpx client of ConvexClient (timeout=30.0) ends a query that gets no
\* answer, which query() turns into None. Nothing ends a fetch_fn() that
\* does not return: neither get_or_fetch nor its caller sets a timeout.
SpecTurn ==
    /\ InitCancel
    /\ [][NextTurn]_vars
    /\ WF_vars(Tick)
    /\ \A i \in 1..NumTasks : WF_vars(ContentReturn(i, NoReply))

\* the grammar lookups of both tiers on the indexes that up to MaxLoads loads
\* of a provider and one load of each rule set of the base leave
SpecGrammar == InitCompose /\ [][NextGrammar]_vars

InitFormat ==
    Constructed({MaxSize}) /\ watch = "none" /\ NewIntegration /\ NewResponseCache /\ NoTutoring
    /\ NotGraded /\ NotMatched /\ Fetched

\* format_for_context applied to contents of every size up to the bounds
SpecFormat == InitFormat /\ [][CallFormatForContext]_vars

\* what the session asks
QueryTexts == {Str("Abba  baby")}

QueryWords == {Str("baby")}

QueryInputs == {Str("abba")}

\* the literal responses without a context tag
QueryItems == {item \in Items : ~item.is_pattern /\ item.context = <<>>}

SessionQueries == {q \in ContentQueries : q.user_text \in QueryTexts}

NextQueries ==
    \/ Initialize(Backends[2])
    \/ \E item \in QueryItems : Len(responses) < MaxAdds /\ AddResponse(item)
    \/ \E ctx \in {<<>>, Str("s1")} : SetContext(ctx)
    \/ \E user_input \in QueryInputs : Lookup(user_input)
    \/ \E q \in SessionQueries : GetContextForQuery(q)
    \/ \E user_text \in QueryTexts : CallMatchQuery(user_text)
    \/ \E text \in QueryTexts : CallCheckMistakes(text)
    \/ \E query \in QueryTexts : \E order \in SetOrders(SearchTerms(query)) :
          CallRlmLookupGrammar(query, order)
    \/ \E query \in QueryTexts : CallGeneralLookupGrammar(query)
    \/ \E term \in QueryWords : CallLookupVocabulary(term)

\* one session's queries in every order, while responses are added
SpecQueries == InitCompose /\ [][NextQueries]_vars

\* exercises started, answered right and wrong, and completed
SpecExercise == InitCompose /\ [][NextExercise]_vars

\* drills started in every mode and answered to their end
SpecDrill == InitCompose /\ [][NextDrill]_vars

\* games loaded and played with answers, hint requests, skips and quits
SpecGame == InitCompose /\ [][NextGame]_vars

\* get() and set() on pairs that normalize to the same or to different keys
InitKeys == Constructed({KeySize}) /\ watch = "none" /\ NewIntegration /\ NewResponseCache /\ NoTutoring /\ NoCalls

NextKeys ==
    \/ \E r \in KeyRequests : Get(r)
    \/ \E r \in KeyRequests, v \in Values : Set(r, v)

SpecKeys == InitKeys /\ [][NextKeys]_vars

(***************************************************************************)
(* Properties of the composer.                                             *)
(***************************************************************************)
\* the categories: the Tier 1 field and the Tier 2 field of each
Categories ==
    { [tier1 |-> "rlm_grammar_context", tier2 |-> "grammar_context"],
      [tier1 |-> "rlm_vocabulary_context", tier2 |-> "vocabulary_context"],
      [tier1 |-> "rlm_mistake_context", tier2 |-> "mistake_correction"] }

\* C1: suppression. For each category, where the Tier 1 field of a context
\* is not empty the text of its Tier 2 field is no part of the string
\* to_string() composes, whatever the other fields hold; and a context that
\* get_context_for_query built never holds both.
C1_Suppression ==
    \A c \in Categories :
        /\ (composed.done /\ context[c.tier1] # <<>> /\ context[c.tier2] # <<>>)
              => ~Contains(context[c.tier2], composed.text)
        /\ origin = "get_context_for_query"
              => ~(context[c.tier1] # <<>> /\ context[c.tier2] # <<>>)

\* C1 witness: to_string() composed a context whose Tier 1 and Tier 2 grammar
\* fields are both set, next to a Tier 2 vocabulary field that is not
\* suppressed
C1_Witness ==
    /\ composed.done
    /\ context.rlm_grammar_context # <<>>
    /\ context.grammar_context # <<>>
    /\ context.rlm_vocabulary_context = <<>>
    /\ context.vocabulary_context # <<>>
    /\ Contains(context.vocabulary_context, composed.text)

(***************************************************************************)
(* Properties of RAGCache.                                                 *)
(***************************************************************************)
KeySet(c) == {c[i].key : i \in 1..Len(c)}

\* the entry stored under key k
EntryOf(c, k) == c[IndexOf(c, k)]

\* a step is a set() on key k storing v: a call of set(), or the set() that
\* ends a get_or_fetch
IsSetStep(k, v) ==
    \/ \E r \in WideRequests : KeyOf[r] = k /\ Set(r, v)
    \/ \E i \in 1..Len(fetching) : fetching[i].key = k /\ FetchReturn(i, v)

\* a step is a get() on key k: a call of get(), or the get() that begins a
\* get_or_fetch
IsGetStep(k) ==
    \E r \in WideRequests : KeyOf[r] = k /\ (Get(r) \/ GetOrFetch(r))

\* C2: LRU eviction. A set() of a key that is not stored, on a cache holding
\* max_size entries, removes exactly one entry, the one whose last insertion
\* or get() hit is the oldest; and the entry a get() hit returns becomes the
\* most recently used one, which the next eviction does not remove.
C2_LruEviction ==
    [][\A k \in Keys :
         /\ \A v \in Values :
              (IsSetStep(k, v) /\ Len(cache) = max_size /\ ~HasKey(cache, k))
                 => KeySet(cache') = (KeySet(cache) \ {Head(touch)}) \cup {k}
         /\ (IsGetStep(k) /\ GetOutcome(cache, k, now, ttl_seconds) = "hit")
                 => /\ cache'[Len(cache')].key = k
                    /\ touch'[Len(touch')] = k
                    /\ Len(cache') >= 2 => Head(cache').key # k]_vars

\* C7: set() removes an entry only when storing the result would leave the
\* cache over max_size; storing under a key that is already stored removes
\* no other key's entry and leaves the number of entries unchanged.
C7_EvictOnlyOverCapacity ==
    [][\A k \in Keys, v \in Values :
         IsSetStep(k, v) =>
            /\ KeySet(cache) \ KeySet(cache') # {}
                  => Cardinality(KeySet(cache) \cup {k}) > max_size
            /\ HasKey(cache, k)
                  => KeySet(cache') = KeySet(cache) /\ Len(cache') = Len(cache)]_vars

\* C8: capacity bound. In every reachable state the cache holds at most
\* max_size entries.
C8_CapacityBound == Len(cache) <= max_size

\* C8 witness: a full cache of at least two entries, a call suspended in
\* fetch_fn(), after the clock has advanced
C8_Witness ==
    /\ max_size >= 2
    /\ Len(cache) = max_size
    /\ fetching # <<>>
    /\ now > 0

\* C9: TTL is checked on read only. An entry leaves the cache in a get() on
\* its own key that finds it expired, in clear() or invalidate_collection(),
\* or in a set() as the least recently used entry, expired or not; no other
\* step removes it, however old it is.
C9_LazyExpiry ==
    [][\A x \in KeySet(cache) \ KeySet(cache') :
         \/ IsGetStep(x) /\ GetOutcome(cache, x, now, ttl_seconds) = "expired"
         \/ Clear
         \/ InvalidateCollection
         \/ x = Head(touch) /\ \E k \in Keys, v \in Values : IsSetStep(k, v)]_vars

\* C10: staleness is measured from insertion. A get() leaves every entry it
\* keeps as it was, timestamp included, and the entry of its key whose
\* timestamp is more than ttl_seconds old is a miss: the entry is dropped
\* and a get_or_fetch goes on to fetch_fn().  Only a set() on a key changes
\* the timestamp stored under it.
C10_StalenessFromInsertion ==
    [][/\ \A k \in KeySet(cache) \cap KeySet(cache') :
            \/ EntryOf(cache', k).timestamp = EntryOf(cache, k).timestamp
            \/ \E v \in Values : IsSetStep(k, v)
       /\ \A k \in Keys :
            \/ /\ \A j \in 1..Len(cache') : \E i \in 1..Len(cache) : cache'[j] = cache[i]
               /\ \/ ~HasKey(cache, k)
                  \/ now - EntryOf(cache, k).timestamp <= ttl_seconds
                  \/ /\ ~HasKey(cache', k)
                     /\ \/ fetching' = Append(fetching, Suspended(k, FALSE))
                        \/ ~\E r \in WideRequests : KeyOf[r] = k /\ GetOrFetch(r)
            \/ ~IsGetStep(k)]_vars

\* C10 witness: an entry that a get() hit moved behind a younger entry (its
\* timestamp is the older one) and that is stale now
C10_Witness ==
    \E i \in 1..Len(cache) : \E j \in (i + 1)..Len(cache) :
        /\ cache[j].timestamp < cache[i].timestamp
        /\ now - cache[j].timestamp > ttl_seconds

\* C3: cache expiry. A get_or_fetch on a stored key whose entry is older than
\* ttl_seconds drops the entry and calls fetch_fn() again, to return
\* was_cached = False, whatever the number of entries; at an age of at most
\* ttl_seconds the entry is served: its value, was_cached = True, no fetch.
C3_CacheExpiry ==
    [][/\ \A r \in Requests :
            (GetOrFetch(r) /\ HasKey(cache, KeyOf[r])) =>
               IF now - EntryOf(cache, KeyOf[r]).timestamp > ttl_seconds
               THEN /\ ~HasKey(cache', KeyOf[r])
                    /\ Len(fetching') = Len(fetching) + 1
                    /\ fetching'[Len(fetching')].key = KeyOf[r]
               ELSE /\ fetching' = fetching
                    /\ last'.op = "get_or_fetch"
                    /\ last'.cached
                    /\ last'.value = EntryOf(cache, KeyOf[r]).result
       /\ \A i \in 1..Len(fetching), v \in Values :
            FetchReturn(i, v) =>
               last'.op = "get_or_fetch" /\ ~last'.cached /\ last'.value = v]_vars

\* C4: idempotence. A get_or_fetch that follows a returned get_or_fetch of
\* the same key, no later than ttl_seconds after it and with no other call
\* on the cache between the two, returns the same value with
\* was_cached = True and does not call fetch_fn(), whatever the value is.
C4_Idempotence ==
    [][\A r \in Requests :
         (/\ GetOrFetch(r)
          /\ last.op = "get_or_fetch"
          /\ last.how \in {"hit", "stored"}
          /\ last.key = KeyOf[r]
          /\ now - last.at <= ttl_seconds)
            => /\ fetching' = fetching
               /\ last'.op = "get_or_fetch"
               /\ last'.cached
               /\ last'.value = last.value]_vars

\* C5: concurrent misses of one key. Every get_or_fetch that misses goes on
\* to fetch_fn(), also when a call on the same key is awaiting its own; and
\* when the fetch_fn() of a call returns v, the set() that follows leaves
\* exactly one entry for the key, holding v: the last set() wins.
C5_ConcurrentMisses ==
    [][/\ \A r \in Requests :
            (GetOrFetch(r) /\ GetOutcome(cache, KeyOf[r], now, ttl_seconds) # "hit")
               => /\ Len(fetching') = Len(fetching) + 1
                  /\ fetching'[Len(fetching')].key = KeyOf[r]
       /\ \A i \in 1..Len(fetching), v \in Values :
            FetchReturn(i, v) =>
               /\ Cardinality({j \in 1..Len(cache') : cache'[j].key = fetching[i].key}) = 1
               /\ EntryOf(cache', fetching[i].key).result = v]_vars

\* C5 witness: two calls missed the same key and both fetched; the one that
\* returned last found the other's value stored and replaced it, and both
\* have returned
C5_Witness ==
    /\ last.op = "get_or_fetch"
    /\ last.how = "stored"
    /\ last.over
    /\ fetching = <<>>
    /\ EntryOf(cache, last.key).result = last.value

\* C6: the lock is held only inside the map updates. Wherever the tasks
\* change hands, and so while any call awaits fetch_fn(), the lock is free:
\* a free task can start a get_or_fetch on any key and every awaited
\* fetch_fn() can return and store its value.
C6_LockOnlyInsideUpdates ==
    /\ ~lock
    /\ fetching # <<>> =>
          /\ Len(fetching) < NumTasks => \A r \in Requests : ENABLED GetOrFetch(r)
          /\ \A i \in 1..Len(fetching), v \in Values : ENABLED FetchReturn(i, v)

\* C6 witness: a get_or_fetch missed, fetched and stored its value while an
\* older fetch of another key was awaited, and that one is awaited still
C6_Witness ==
    /\ last.op = "get_or_fetch"
    /\ last.how = "stored"
    /\ last.within
    /\ \E j \in 1..Len(fetching) : fetching[j].key # last.key

(***************************************************************************)
(* Properties of the cache key.                                            *)
(***************************************************************************)
\* the query with its letters lowercased, leading and trailing whitespace
\* dropped and every inner run of whitespace replaced by one space, read
\* off the characters one at a time; pending: a run of whitespace was passed
\* after a kept character
RECURSIVE Collapsed(_, _, _)
Collapsed(s, i, pending) ==
    IF i > Len(s) THEN <<>>
    ELSE IF s[i] \in {" ", "\t"}
         THEN Collapsed(s, i + 1, pending)
         ELSE (IF pending THEN <<" ">> ELSE <<>>) \o <<LowerChar(s[i])>>
              \o Collapsed(s, i + 1, \E j \in (i + 1)..Len(s) : s[j] \in {" ", "\t"})

\* the two lists hold the same ids, each as often, in any order
SameIds(c, d) ==
    /\ Len(c) = Len(d)
    /\ \A x \in Range(c) \cup Range(d) :
          Cardinality({i \in 1..Len(c) : c[i] = x}) = Cardinality({i \in 1..Len(d) : d[i] = x})

\* the pairs the key normalization identifies
SameScope(r1, r2) ==
    /\ Collapsed(r1.query, 1, FALSE) = Collapsed(r2.query, 1, FALSE)
    /\ SameIds(r1.collection_ids, r2.collection_ids)

\* for each pair, the pairs of the same scope
Scopes == [r1 \in KeyRequests |-> {r2 \in KeyRequests : SameScope(r1, r2)}]

\* C11: key normalization. Two pairs whose queries are equal after
\* lowercasing, trimming and collapsing whitespace runs, and whose id lists
\* hold the same ids in any order, get the same key; a result stored under
\* one pair is what get() on the other returns.
C11_KeyNormalization ==
    [][\A r1 \in KeyRequests, v \in Values :
         Set(r1, v) =>
            \A r2 \in Scopes[r1] :
                  /\ KeyOf[r2] = KeyOf[r1]
                  /\ GetResult(cache', KeyOf[r2], now', ttl_seconds') = v]_vars

\* C11 witness: a result is stored, and get() returns it, under a key that
\* two pairs share which differ in case, in whitespace and in the order of
\* the ids
C11_Witness ==
    LET r1 == [query |-> Str("A  b"), collection_ids |-> <<Str("y"), Str("x")>>]
        r2 == [query |-> <<" ", "a", "\t", " ", "B", " ">>,
               collection_ids |-> <<Str("x"), Str("y")>>]
    IN  /\ HasKey(cache, KeyOf[r1])
        /\ Len(cache) = max_size
        /\ GetResult(cache, KeyOf[r2], now, ttl_seconds) = "v1"

\* C12: scope separation. Two pairs whose id lists differ as sets never get
\* the same key, so no stored entry is the entry of two different scopes.
C12_ScopeSeparation ==
    \A i \in 1..Len(cache) : \A r1, r2 \in KeyRequests :
        (KeyOf[r1] = cache[i].key /\ Range(r1.collection_ids) # Range(r2.collection_ids))
           => KeyOf[r2] # cache[i].key

(***************************************************************************)
(* Properties of a failing fetch.                                          *)
(***************************************************************************)
\* C13: fetch failure. When fetch_fn raises inside get_or_fetch nothing is
\* stored, every entry is as it was, the lock is free and the other
\* suspended calls stay suspended; the turn gets no contribution and no
\* exception; and the next get_or_fetch of the key, no other call having
\* stored it, awaits fetch_fn again.
C13_FetchFailure ==
    [][/\ \A i \in 1..Len(fetching) :
            FetchRaise(i) =>
               /\ cache' = cache
               /\ ~lock'
               /\ fetching' = Left(i)
               /\ OnUserTurnCompleted(last') = [injected |-> None, raised |-> FALSE]
       /\ \A r \in AgeRequests :
            (/\ last.op = "get_or_fetch" /\ last.how = "raised"
             /\ last.key = KeyOf[r]
             /\ ~HasKey(cache, KeyOf[r])
             /\ GetOrFetch(r))
               => fetching' = Append(fetching, Suspended(KeyOf[r], FALSE))]_vars

\* C13 witness: a fetch has failed while the cache held an entry of another
\* key and another call was suspended; the failed key has no entry
C13_Witness ==
    /\ last.op = "get_or_fetch" /\ last.how = "raised"
    /\ cache # <<>> /\ ~HasKey(cache, last.key)
    /\ fetching # <<>>


\* C14: get_context_for_query returns a context and never raises: when the
\* lookup, fetch or formatting of one tier fails, that tier contributes
\* nothing and the other tiers are still returned
C14_TierFailureIsolation == origin # "raised"

\* the query did not give a record with a jsonContent
FailedReply(reply) == ~(reply.kind = "record" /\ reply.jsonContent # Absent)

\* the content id get_context_for_query asks get_content for, <<>> if none
LessonAsked(q) ==
    IF initialized /\ q.include_lesson /\ lesson_index # <<>>
                   /\ Matching[Loaded][q.user_text] # <<>>
    THEN Matching[Loaded][q.user_text][1].content_id
    ELSE <<>>

C20_ContentFetchFailure ==
    [][/\ \A i \in 1..Len(waiting) : \A reply \in Replies(waiting[i]) :
            (FailedReply(reply) /\ ContentReturn(i, reply)) =>
               /\ served' = Served(waiting[i], Absent, 1)
               /\ ~served'.raised
               /\ content_cache' = content_cache
       /\ \A id \in ContentIds :
            (/\ served = Served(id, Absent, 1)
             /\ ~DictHas(content_cache, id)
             /\ CallGetContent(id)) => waiting' = Append(waiting, id)
       /\ \A q \in ContentQueries :
            (/\ LessonAsked(q) # <<>>
             /\ GetContextForQuery(q)
             /\ served' = Served(LessonAsked(q), Absent, 1)) =>
               /\ content_cache' = content_cache
               /\ origin' = "get_context_for_query"
               /\ context'.lesson_context = <<>>]_vars

\* a query failed, the cache kept its other entry, and the id is asked for
\* again with a new query
C20_Witness ==
    /\ served.content = Absent /\ served.queries = 1
    /\ content_cache # <<>> /\ ~DictHas(content_cache, served.id)
    /\ \E i \in 1..Len(waiting) : waiting[i] = served.id

\* C15: creating and initializing a second KnowledgeIntegration, or
\* initializing one again, never changes the Tier 1 and Tier 2 lookup results
\* of the session initialized earlier: they stay those of what it loaded
C15_SessionIsolation ==
    sessions # <<>> =>
       \A q \in ContentQueries :
          Lookups(rlm, general, q) = Lookups(sessions[1].rlm, sessions[1].general, q)

\* the entry matches the input by one of the three strategies
Matches(cached, input_lower) ==
    \/ ExactMatch(cached, input_lower)
    \/ PatternMatch(cached, input_lower)
    \/ FuzzyMatch(cached, input_lower)

\* the first entry of rs that is eligible under ctx and matches, or Absent
FirstMatch(rs, ctx, input_lower) ==
    LET good == {i \in 1..Len(rs) : Eligible(rs[i], ctx) /\ Matches(rs[i], input_lower)}
    IN  IF good = {} THEN Absent
        ELSE rs[CHOOSE i \in good : \A j \in good : i <= j]

\* C16: lookup prefers exact over pattern over fuzzy among the eligible
\* entries: when an eligible literal entry's trigger equals the lowercased,
\* trimmed input, the entry returned is an exact match
C16_LookupOrder ==
    [][\A user_input \in UserInputs :
         (/\ Lookup(user_input)
          /\ \E i \in 1..Len(responses) :
                /\ Eligible(responses[i], current_context)
                /\ ExactMatch(responses[i], Strip(Lower(user_input))))
            => answered'.how = "exact"]_vars

\* C17: after any sequence of add_response, load_lesson_responses and
\* load_slide_explanations the entries are in non-increasing priority order,
\* entries of equal priority in the order they were added, and lookup
\* returns the first eligible matching entry in that order
C17_ResponsePriority ==
    [][/\ \A i, j \in 1..Len(responses') :
            i < j => responses'[i].priority >= responses'[j].priority
       /\ \A p \in Priorities :
            SelectSeq(responses', LAMBDA r : r.priority = p) = inserted'[p]
       /\ \A i \in 1..Len(responses') : responses'[i].priority \in Priorities
       /\ \A user_input \in UserInputs :
            Lookup(user_input) =>
               answered'.entry = FirstMatch(responses, current_context,
                                            Strip(Lower(user_input)))]_vars

\* entries of two priorities, the two of the lower one different and in the
\* order they were added; the lookup passed over the first entry and returned
\* a later one
C17_Witness ==
    /\ Len(responses) >= 3
    /\ responses[Len(responses)].priority = 0
    /\ inserted[0][1] = responses[Len(responses) - 1]
    /\ \E i \in 1..Len(responses) - 1 :
          /\ responses[i].priority = responses[i + 1].priority
          /\ responses[i] # responses[i + 1]
    /\ answered.entry # Absent
    /\ answered.entry # responses[1]
    /\ \E i \in 2..Len(responses) : responses[i] = answered.entry

\* C18: lookup never returns an entry whose context tag is non-empty and
\* differs from the current context, the one set_context set last or ""
\* after clear; an entry with an empty tag is eligible under every context
C18_ContextScoping ==
    [][/\ \A user_input \in UserInputs :
            Lookup(user_input) =>
               /\ answered'.entry # Absent =>
                     answered'.entry.context \in {<<>>, current_context}
               /\ (\E i \in 1..Len(responses) :
                      /\ responses[i].context = <<>>
                      /\ Matches(responses[i], Strip(Lower(user_input))))
                     => answered'.entry # Absent
       /\ \A ctx \in ContextTags : SetContext(ctx) => current_context' = ctx
       /\ ClearResponses => current_context' = <<>>]_vars

\* a lookup under a non-empty context returned an entry of that context
\* while an entry of another context matched the input as well
C18_Witness ==
    /\ current_context # <<>>
    /\ answered.entry # Absent
    /\ answered.entry.context = current_context
    /\ answered.entry = FirstMatch(responses, current_context, Strip(Lower(answered.input)))
    /\ \E i \in 1..Len(responses) :
          /\ responses[i].context \notin {<<>>, current_context}
          /\ Matches(responses[i], Strip(Lower(answered.input)))

\* the fields of a KnowledgeContext in the order of composition
FieldOrder ==
    << "rlm_grammar_context", "rlm_vocabulary_context", "rlm_mistake_context",
       "grammar_context", "vocabulary_context", "mistake_correction",
       "lesson_context", "session_progress" >>

\* the field is a Tier 2 field whose category has a Tier 1 contribution
Suppressed(ctx, field) ==
    \E c \in Categories : c.tier2 = field /\ ctx[c.tier1] # <<>>

\* the positions of FieldOrder whose fields contribute
Contributing(ctx) ==
    {n \in 1..Len(FieldOrder) :
        ctx[FieldOrder[n]] # <<>> /\ ~Suppressed(ctx, FieldOrder[n])}

\* the text from the n-th field of FieldOrder on: each contribution, and a
\* blank line between two
RECURSIVE ComposedFrom(_, _)
ComposedFrom(ctx, n) ==
    IF n > Len(FieldOrder) THEN <<>>
    ELSE IF n \notin Contributing(ctx) THEN ComposedFrom(ctx, n + 1)
    ELSE ctx[FieldOrder[n]]
         \o (IF \E m \in Contributing(ctx) : m > n THEN <<"\n", "\n">> ELSE <<>>)
         \o ComposedFrom(ctx, n + 1)

\* C21: composition order. to_string() emits the non-empty, non-suppressed
\* contributions in the order Tier 1 grammar, vocabulary, mistake, Tier 2
\* grammar, vocabulary, mistake, curriculum content, session progress, and a
\* context without contribution composes to the empty string
C21_CompositionOrder ==
    composed.done =>
       /\ composed.text = ComposedFrom(context, 1)
       /\ Contributing(context) = {} => composed.text = <<>>

\* C21 witness: a composed context with a Tier 1 and a Tier 2 contribution, a
\* suppressed Tier 2 field, curriculum content and a session-progress note
C21_Witness ==
    /\ composed.done
    /\ context.rlm_mistake_context # <<>>
    /\ context.mistake_correction # <<>>
    /\ context.rlm_grammar_context = <<>>
    /\ context.grammar_context # <<>>
    /\ context.lesson_context # <<>>
    /\ context.session_progress # <<>>
    /\ Cardinality(Contributing(context)) = 4

\* what Tier 2 alone finds for each backend and call, computed once: the
\* built-in fields when no RLM field is set
BuiltIn ==
    [i \in 1..Len(Backends) |-> [q \in ContentQueries |->
        Tier2(Backends[i].general, EmptyContext, q.user_text, q.include_grammar,
              q.include_vocabulary, q.check_mistakes)]]

\* C22: suppression is per category. In get_context_for_query Tier 2 is
\* queried for a category exactly when Tier 1 gave nothing for it, and what
\* Tier 2 finds for it then is part of the composed text, whatever Tier 1 gave
\* for the other categories
C22_PerCategory ==
    [][\A q \in ContentQueries :
         (/\ initialized
          /\ origin' = "get_context_for_query"
          /\ GetContextForQuery(q)) =>
            \A c \in Categories :
               LET built_in == BuiltIn[Loaded][q][c.tier2]
               IN  /\ context'[c.tier1] # <<>> => context'[c.tier2] = <<>>
                   /\ context'[c.tier1] = <<>> => context'[c.tier2] = built_in
                   /\ (context'[c.tier1] = <<>> /\ built_in # <<>>)
                         => Contains(built_in, to_string(context'))]_vars

\* C22 witness: a context of get_context_for_query in which Tier 1 gave one
\* category and Tier 2 another
C22_Witness ==
    /\ origin = "get_context_for_query"
    /\ \E c, d \in Categories :
          /\ context[c.tier1] # <<>> /\ context[c.tier2] = <<>>
          /\ context[d.tier1] = <<>> /\ context[d.tier2] # <<>>

\* C23: curriculum content is additive. get_context_for_query matches and
\* fetches the curriculum content whether or not Tier 1 or Tier 2
\* contributed, and to_string() includes a non-empty curriculum contribution
\* whatever the six Tier 1 and Tier 2 fields hold
C23_Additive ==
    [][/\ (composed'.done /\ context'.lesson_context # <<>>)
            => Contains(context'.lesson_context, composed'.text)
       /\ \A q \in ContentQueries :
            (/\ initialized
             /\ origin' # "KnowledgeContext"
             /\ LessonAsked(q) # <<>>
             /\ GetContextForQuery(q)) =>
               /\ served'.id = LessonAsked(q)
               /\ (origin' = "get_context_for_query" /\ served'.content # Absent) =>
                     /\ context'.lesson_context = FormatForContext(served'.content)
                     /\ Contains(context'.lesson_context, to_string(context'))]_vars

\* C23 witness: get_context_for_query returned lesson content next to a
\* Tier 1 and a Tier 2 contribution, and to_string() composed it
C23_Witness ==
    /\ origin = "get_context_for_query"
    /\ composed.done
    /\ context.lesson_context # <<>>
    /\ \E c, d \in Categories : context[c.tier1] # <<>> /\ context[d.tier2] # <<>>
    /\ served.content # Absent

\* s can be turned into t by at most n single-character insertions,
\* deletions and substitutions
RECURSIVE Within(_, _, _)
Within(s, t, n) ==
    IF n < 0 THEN FALSE
    ELSE IF s = <<>> THEN Len(t) <= n
    ELSE IF t = <<>> THEN Len(s) <= n
    ELSE IF Head(s) = Head(t) THEN Within(Tail(s), Tail(t), n)
    ELSE \/ Within(Tail(s), t, n - 1)
         \/ Within(s, Tail(t), n - 1)
         \/ Within(Tail(s), Tail(t), n - 1)

\* the edits the bounded check allows for a correct answer
Allowed(correct) == IF Len(correct) < 8 THEN 1 ELSE 2

\* C24: _check_answer accepts an answer that differs from the correct answer
\* exactly when the two are at most N edits apart, N = 1 for a correct
\* answer of fewer than 8 characters and N = 2 otherwise
C24_BoundedEditDistance ==
    (graded.by = "game" /\ graded.student # graded.correct) =>
        (graded.is_correct <=>
            Within(graded.student, graded.correct, Allowed(graded.correct)))

\* a long answer two edits away was accepted
C24_Witness ==
    /\ graded.by = "game"
    /\ Len(graded.correct) >= 8
    /\ graded.is_correct
    /\ ~Within(graded.student, graded.correct, 1)

\* C25: the exercise and the drill accept an answer within 1 edit of a
\* correct answer shorter than 8 characters and within 2 edits of a longer one
C25_GradingUsesEditDistance ==
    (/\ graded.by \in {"exercise", "drill"}
     /\ Within(Lower(Strip(graded.student)), Lower(Strip(graded.correct)),
               Allowed(Lower(Strip(graded.correct))))) =>
        graded.is_correct

\* C26: an answer with two adjacent, different characters of a 10-character
\* correct answer exchanged is accepted, and one with two adjacent, different
\* characters of a 4-character correct answer exchanged is rejected
C26_Transposition ==
    (/\ graded.by \in {"game", "drill"}
     /\ graded.student \in Swaps(graded.correct)
     /\ graded.student # graded.correct) =>
        /\ Len(graded.correct) = 10 => graded.is_correct
        /\ Len(graded.correct) = 4 => ~graded.is_correct

\* the game accepted a transposition in a 10-character answer
C26_Witness ==
    /\ graded.by = "game"
    /\ Len(graded.correct) = 10
    /\ graded.student \in Swaps(graded.correct)
    /\ graded.student # graded.correct
    /\ graded.is_correct

\* the drill rejected a transposition in a 4-character answer
C26_Rejected ==
    /\ graded.by = "drill"
    /\ Len(graded.correct) = 4
    /\ graded.student \in Swaps(graded.correct)
    /\ ~graded.is_correct

\* the score match_query gave the unit at a position of the index it searched
ScoreAt(pos) == LessonScore(matched.index[pos], Lower(matched.text))

\* the unit at position a ranks before the one at position b: a higher
\* score, or the same score and loaded earlier
RanksBefore(a, b) == ScoreAt(a) > ScoreAt(b) \/ (ScoreAt(a) = ScoreAt(b) /\ a < b)

\* the positions of the units with a score above 0
Scoring == {pos \in 1..Len(matched.index) : ScoreAt(pos) > 0}

\* C27: match_query returns at most 2 index entries, by score descending,
\* units of equal score in load order; the first has the maximal score
C27_Ranking ==
    matched.called =>
        /\ Len(matched.lessons) <= 2
        /\ Len(matched.lessons) = IF Cardinality(Scoring) < 2 THEN Cardinality(Scoring) ELSE 2
        /\ \E at \in [1..Len(matched.lessons) -> Scoring] :
              /\ \A k \in DOMAIN at : matched.lessons[k] = matched.index[at[k]]
              /\ \A k, l \in DOMAIN at : k < l => RanksBefore(at[k], at[l])
              /\ \A pos \in Scoring :
                    (\A k \in DOMAIN at : at[k] # pos) =>
                        \A k \in DOMAIN at : RanksBefore(at[k], pos)
              /\ \A pos \in 1..Len(matched.index) :
                    at # <<>> => ScoreAt(pos) <= ScoreAt(at[1])

\* three units scored, two of them the same, and the later-loaded unit of
\* the higher score came first
C27_Witness ==
    /\ matched.called
    /\ Cardinality(Scoring) = 3
    /\ Len(matched.lessons) = 2
    /\ \E a, b, c \in Scoring :
          /\ a < b /\ b < c
          /\ ScoreAt(a) = ScoreAt(b) /\ ScoreAt(c) > ScoreAt(a)
          /\ matched.lessons = <<matched.index[c], matched.index[a]>>

\* a non-empty keyword of the lesson occurs in the text, or the text holds a
\* trigger word of a kind the lesson has items of
Qualifies(lesson, text_lower) ==
    \/ \E i \in 1..Len(lesson.keywords) :
          lesson.keywords[i] # <<>> /\ Contains(lesson.keywords[i], text_lower)
    \/ \E w \in Range(triggers.exercise) :
          Contains(w, text_lower) /\ lesson.exercise_count > 0
    \/ \E w \in Range(triggers.grammar) :
          Contains(w, text_lower) /\ lesson.grammar_count > 0
    \/ \E w \in Range(triggers.vocabulary) :
          Contains(w, text_lower) /\ lesson.vocabulary_count > 0

\* the text holds a keyword of a unit of the index, or a trigger word
Overlaps(index, text_lower) ==
    \/ \E i \in 1..Len(index) : \E k \in Range(index[i].keywords) :
          k # <<>> /\ Contains(k, text_lower)
    \/ \E w \in Range(triggers.exercise) \cup Range(triggers.grammar)
                   \cup Range(triggers.vocabulary) : Contains(w, text_lower)

\* C28: match_query returns a unit only if one of its non-empty keywords
\* occurs in the query or the query holds a trigger word of a kind the unit
\* has items of; a query with no keyword overlap and no trigger word
\* matches nothing
C28_Eligibility ==
    matched.called =>
        /\ \A k \in 1..Len(matched.lessons) :
              /\ matched.lessons[k] \in Range(matched.index)
              /\ Qualifies(matched.lessons[k], Lower(matched.text))
        /\ ~Overlaps(matched.index, Lower(matched.text)) => matched.lessons = <<>>

\* the unit with the keywords "modal" and "verb" and no items was returned
\* for "explain the modal verb rule", and a unit with items of no kind the
\* text triggers was left out
C28_Witness ==
    /\ matched.called
    /\ matched.text = Str("explain the modal verb rule")
    /\ \E k \in 1..Len(matched.lessons) :
          /\ matched.lessons[k].keywords = <<Str("modal"), Str("verb")>>
          /\ matched.lessons[k].grammar_count = 0
    /\ \E i \in 1..Len(matched.index) :
          /\ matched.index[i].vocabulary_count > 0
          /\ matched.index[i] \notin Range(matched.lessons)

\* "what's for lunch" matched nothing in an index of three units
C28_Nothing ==
    /\ matched.called
    /\ matched.text = Str("what's for lunch")
    /\ Len(matched.index) = 3
    /\ matched.lessons = <<>>

\* the patterns a load has to store for its data: those whose regex
\* compiles, in the order of the data
Compilable(data) ==
    LET good == SelectSeq(data, LAMBDA d : ReCompile(d.pattern) = "compiled")
    IN  [i \in 1..Len(good) |->
            RLMMistakePattern(good[i].pattern, good[i].correction, good[i].explanation,
                              good[i].category)]

\* C29: load never stores a mistake pattern whose regex failed to compile;
\* after any loads every stored pattern has a compiled regex, a bad entry
\* is skipped without raising, and the other entries of the load are stored
\* in their original order
C29_MalformedPatterns ==
    /\ \A i \in 1..Len(rlm.mistake_patterns) :
          /\ rlm.mistake_patterns[i].compiled_pattern
          /\ ReCompile(rlm.mistake_patterns[i].pattern) = "compiled"
    /\ checked.op = "load" =>
          /\ ~checked.raised
          /\ rlm.mistake_patterns = checked.before \o Compilable(checked.data)

\* the same for loads whose bad entries all fail with re.error
C29_ReErrorOnly ==
    (/\ checked.op = "load"
     /\ \A i \in 1..Len(checked.data) :
           ReCompile(checked.data[i].pattern) \in {"compiled", "re.error"}) =>
        /\ ~checked.raised
        /\ rlm.mistake_patterns = checked.before \o Compilable(checked.data)

\* a load with an re.error entry between two good ones stored the two
C29_Skipped ==
    /\ checked.op = "load"
    /\ Len(checked.data) = 3
    /\ ReCompile(checked.data[2].pattern) = "re.error"
    /\ Len(rlm.mistake_patterns) = Len(checked.before) + 2

\* the mistakes registered that the text holds, in the order registered
Holding(mistakes, text) ==
    SelectSeq(mistakes, LAMBDA m : Contains(Lower(m.pattern), Lower(text)))

\* the mistakes the base of the session was given: the built-in ones at
\* initialize(), then those loaded
Registered == DictValues(Backends[1].general.mistake_patterns) \o registered.general

\* C30: check_mistakes returns every loaded mistake pattern that matches the
\* text and no other, in load order, and the composer surfaces the
\* first-registered of the matching patterns
C30_MistakeOrder ==
    [][/\ \A text \in MistakeTexts \cup {<<>>} :
             CallCheckMistakes(text) =>
                checked'.result = Holding(rlm.mistake_patterns, text)
       /\ \A text \in MistakeTexts \cup {<<>>} :
             (initialized /\ CallCheckForMistakes(text)) =>
                checked'.result = Holding(Registered, text)
       /\ \A q \in MistakeQueries :
             (initialized /\ origin' = "get_context_for_query" /\ GetContextForQuery(q)) =>
                LET first == Holding(rlm.mistake_patterns, q.user_text)
                    built_in == Holding(Registered, q.user_text)
                IN  /\ (IsLoaded(rlm) /\ first # <<>>) =>
                          /\ context'.rlm_mistake_context = RlmFormatMistake(first[1])
                          /\ context'.mistake_correction = <<>>
                    /\ (first = <<>> /\ built_in # <<>>) =>
                          context'.mistake_correction = GeneralFormatMistake(built_in[1])
                    /\ (first = <<>> /\ built_in = <<>>) =>
                          /\ context'.rlm_mistake_context = <<>>
                          /\ context'.mistake_correction = <<>>]_vars

\* the same for the provider alone: its check and what the composer
\* surfaces from it
C30_ProviderOrder ==
    [][/\ \A text \in MistakeTexts \cup {<<>>} :
             CallCheckMistakes(text) =>
                checked'.result = Holding(rlm.mistake_patterns, text)
       /\ \A q \in MistakeQueries :
             (initialized /\ origin' = "get_context_for_query" /\ GetContextForQuery(q)) =>
                LET first == Holding(rlm.mistake_patterns, q.user_text)
                IN  (IsLoaded(rlm) /\ first # <<>>) =>
                       /\ context'.rlm_mistake_context = RlmFormatMistake(first[1])
                       /\ context'.mistake_correction = <<>>]_vars

\* two loaded patterns matched a text and the composer surfaced the first
C30_ProviderWitness ==
    /\ origin = "get_context_for_query"
    /\ Len(rlm.mistake_patterns) = 2
    /\ rlm.mistake_patterns[1] # rlm.mistake_patterns[2]
    /\ context.rlm_mistake_context = RlmFormatMistake(rlm.mistake_patterns[1])

\* the load of the tier failed or gave no data
NoRlm == checked.data.rlm # "data"
NoGeneral ==
    \/ "raises" \in {checked.data.grammar, checked.data.vocabulary, checked.data.mistakes}
    \/ {checked.data.grammar, checked.data.vocabulary, checked.data.mistakes} = {"nothing"}
NoIndex == checked.data.index # "data"

\* C31: when the bulk load of a tier fails or returns no data, initialize()
\* completes, the tier has zero entries and it contributes nothing to later
\* queries
C31_EmptyTier ==
    checked.op = "initialize" =>
        /\ initialized
        /\ NoRlm => /\ rlm = NewProvider
                    /\ origin = "get_context_for_query" =>
                          /\ context.rlm_grammar_context = <<>>
                          /\ context.rlm_vocabulary_context = <<>>
                          /\ context.rlm_mistake_context = <<>>
        /\ NoGeneral => /\ general = NewGeneral
                        /\ origin = "get_context_for_query" =>
                              /\ context.grammar_context = <<>>
                              /\ context.vocabulary_context = <<>>
                              /\ context.mistake_correction = <<>>
        /\ NoIndex => /\ lesson_index = <<>>
                      /\ origin = "get_context_for_query" => context.lesson_context = <<>>

\* the same without the general loads that raise: the provider and the index
\* whose load failed or gave nothing, and the base whose loads all gave
\* nothing
C31_NoData ==
    checked.op = "initialize" =>
        /\ initialized
        /\ NoRlm => /\ rlm = NewProvider
                    /\ origin = "get_context_for_query" =>
                          /\ context.rlm_grammar_context = <<>>
                          /\ context.rlm_vocabulary_context = <<>>
                          /\ context.rlm_mistake_context = <<>>
        /\ {checked.data.grammar, checked.data.vocabulary, checked.data.mistakes}
              = {"nothing"} =>
              /\ general = NewGeneral
              /\ origin = "get_context_for_query" =>
                    /\ context.grammar_context = <<>>
                    /\ context.vocabulary_context = <<>>
                    /\ context.mistake_correction = <<>>
        /\ NoIndex => /\ lesson_index = <<>>
                      /\ origin = "get_context_for_query" => context.lesson_context = <<>>

\* every load failed or gave nothing, none of the base's raised, and a query
\* was answered with the empty context
C31_NoDataWitness ==
    /\ checked.op = "initialize"
    /\ checked.data.rlm = "raises" /\ checked.data.index = "raises"
    /\ checked.data.grammar = "nothing"
    /\ origin = "get_context_for_query"
    /\ context = EmptyContext

(***************************************************************************)
(* Properties of cancelled and of unanswered fetches.                      *)
(***************************************************************************)
\* C32: when a task suspended in get_or_fetch or in the get_content of
\* get_context_for_query is cancelled, the cache lock is free, both caches
\* hold exactly what they held (entries stored by calls that completed), the
\* cache holds at most max_size entries, and the task is free to start the
\* next get_or_fetch or get_content at once; the get_or_fetch that follows a cancellation is served every fresh
\* entry with a result from the cache.
C32_Cancellation ==
    [][ /\ \A i \in 1..NumTasks :
              CancelFetch(i) \/ CancelContent(i) =>
                 /\ ~lock'
                 /\ cache' = cache
                 /\ content_cache' = content_cache
                 /\ Len(cache') <= max_size
                 /\ CancelFetch(i) => Len(fetching') < NumTasks
                 /\ CancelContent(i) => Len(waiting') < NumTasks
        /\ \A r \in AgeRequests :
              /\ last.how = "cancelled"
              /\ GetOrFetch(r)
              /\ HasKey(cache, KeyOf[r])
              /\ now - EntryOf(cache, KeyOf[r]).timestamp <= ttl_seconds
              /\ EntryOf(cache, KeyOf[r]).result # None
              => /\ last'.op = "get_or_fetch"
                 /\ last'.how = "hit"
                 /\ last'.cached
                 /\ last'.value = EntryOf(cache, KeyOf[r]).result
                 /\ fetching' = fetching ]_vars

\* C32 witness: a get_or_fetch was cancelled in its fetch while the cache
\* held an entry of a fetch that completed, and a get_content was cancelled
\* while a lesson's content was cached
C32_Witness ==
    /\ last.how = "cancelled"
    /\ \E j \in 1..Len(cache) : cache[j].result # None
    /\ served.raised
    /\ content_cache # <<>>

\* C33: a fetch that never completes does not block the turn for ever: every
\* get_or_fetch suspended in its fetch is resumed in the end, so that from
\* any state with a suspended fetch a state without one is reached.
C33_BoundedWait == (fetching # <<>>) ~> (fetching = <<>>)

(***************************************************************************)
(* Properties of the grammar lookups.                                      *)
(***************************************************************************)
\* no element of the sequence occurs twice
NoRepeat(s) == \A i, j \in 1..Len(s) : s[i] = s[j] => i = j

\* what the keyword and category lookups of Tier 2 find for the query
KeywordHits(g, query) ==
    ByCategory(g.grammar_by_category, Lower(query),
               ByKeyword(g, Split(Lower(query)), <<>>))

\* every lookup_grammar returns at most 5 rules and no rule twice, and a
\* Tier 2 lookup whose keyword lookup finds a rule returns keyword hits only
C34_Capped ==
    checked.op \in {"rlm.lookup_grammar", "general.lookup_grammar"} =>
        /\ Len(checked.result) <= 5
        /\ NoRepeat(checked.result)
        /\ checked.op = "general.lookup_grammar"
           /\ KeywordHits(general, checked.text) # <<>>
           => Range(checked.result) \subseteq Range(KeywordHits(general, checked.text))

\* a Tier 2 lookup found nothing by keyword and returned a rule by its name,
\* and another returned five of six keyword hits
C34_CappedWitness ==
    /\ checked.op = "general.lookup_grammar"
    /\ \/ /\ KeywordHits(general, checked.text) = <<>>
          /\ checked.result # <<>>
       \/ /\ Len(KeywordHits(general, checked.text)) > 5
          /\ Len(checked.result) = 5

\* C34: lookup_grammar returns at most 5 rules, none twice, uses the fuzzy
\* match only when the keyword lookup finds no rule, and the set of rules it
\* returns depends only on the query and the loaded index: whatever the order
\* in which the search terms are taken, the same rules are returned.
C34_GrammarLookup ==
    /\ C34_Capped
    /\ checked.op = "rlm.lookup_grammar" =>
          \A order \in SetOrders(SearchTerms(checked.text)) :
             Range(RlmLookupGrammar(rlm, checked.text, order)) = Range(checked.result)

(***************************************************************************)
(* Properties of the formatted lesson content.                             *)
(***************************************************************************)
\* how many parts of the text start a list item of the given kind
Emitted(text, mark) == Cardinality({i \in 1..Len(text) : text[i] = mark})

\* the smaller of two numbers
Least(a, b) == IF a < b THEN a ELSE b

RECURSIVE SumOf(_)
SumOf(s) == IF s = <<>> THEN 0 ELSE Head(s) + SumOf(Tail(s))

\* format_for_context emits of every exercise its first 5 items, of every
\* grammar rule its first 3 examples, and the first 15 vocabulary entries
C35_PerList ==
    checked.op = "format_for_context" =>
        LET content == checked.data.content
        IN  /\ Emitted(checked.result, "- Q: ") =
                  SumOf([i \in 1..Len(content.exercises) |->
                            Least(Len(content.exercises[i].items), 5)])
            /\ Emitted(checked.result, "  Correct: ") =
                  SumOf([i \in 1..Len(content.grammarRules) |->
                            Least(Len(content.grammarRules[i].examples), 3)])
            /\ Emitted(checked.result, "- ") = Least(Len(content.vocabulary), 15)

\* content with lists longer than the cuts was formatted
C35_PerListWitness ==
    /\ checked.op = "format_for_context"
    /\ Len(checked.data.content.vocabulary) > 15
    /\ \E i \in 1..Len(checked.data.content.exercises) :
          Len(checked.data.content.exercises[i].items) > 5
    /\ \E i \in 1..Len(checked.data.content.grammarRules) :
          Len(checked.data.content.grammarRules[i].examples) > 3

\* C35: whatever the size of the content, format_for_context emits at most
\* 5 exercise items, at most 15 vocabulary entries and at most 3 examples for
\* each grammar rule.
C35_BoundedContext ==
    checked.op = "format_for_context" =>
        /\ Emitted(checked.result, "- Q: ") <= 5
        /\ Emitted(checked.result, "- ") <= 15
        /\ Emitted(checked.result, "  Correct: ")
              <= 3 * Len(checked.data.content.grammarRules)

(***************************************************************************)
(* Properties of the queries.                                              *)
(***************************************************************************)
\* a step is one of the lookups on the indexes or on the stored responses
IndexQuery ==
    \/ \E query \in QueryTexts : \E order \in SetOrders(SearchTerms(query)) :
          CallRlmLookupGrammar(query, order)
    \/ \E query \in QueryTexts : CallGeneralLookupGrammar(query)
    \/ \E term \in QueryWords : CallLookupVocabulary(term)
    \/ \E text \in QueryTexts : CallCheckMistakes(text)
    \/ \E user_text \in QueryTexts : CallMatchQuery(user_text)
    \/ \E user_input \in QueryInputs : Lookup(user_input)

\* every entry of the dict d is in e, under the same key with the same value
Extends(e, d) ==
    \A i \in 1..Len(d) : DictHas(e, d[i].key) /\ DictGet(e, d[i].key) = d[i].value

\* C36: lookup_grammar, lookup_vocabulary, check_mistakes, match_query and
\* ResponseCache.lookup leave the indexes of all tiers, the content cache,
\* the stored responses and the current context as they are;
\* get_context_for_query leaves all of these but the content cache, which
\* keeps every entry it had.
C36_QueriesChangeNothing ==
    [][ /\ IndexQuery =>
              UNCHANGED <<initialized, rlm, general, lesson_index, content_cache,
                          responses, current_context, cache>>
        /\ (\E q \in SessionQueries : GetContextForQuery(q)) =>
              /\ UNCHANGED <<initialized, rlm, general, lesson_index, responses,
                             current_context, cache>>
              /\ Extends(content_cache', content_cache) ]_vars

\* C36 witness: on loaded indexes and with responses stored, a lookup
\* returned a response, match_query returned a lesson, a mistake check
\* found a mistake and get_context_for_query stored a lesson's content
C36_Witness ==
    /\ initialized
    /\ answered.entry # Absent
    /\ Len(responses) > 1
    /\ matched.called /\ matched.lessons # <<>>
    /\ checked.op = "check_mistakes" /\ checked.result # <<>>
    /\ origin = "get_context_for_query"
    /\ content_cache # <<>>

(***************************************************************************)
(* Properties of exercises, drills and games.                              *)
(***************************************************************************)
\* the attempts recorded for the item, in order
AttemptsOn(ex, item) ==
    SelectSeq(ex.attempts, LAMBDA a : a.item_id = ItemId(item))

\* the items whose first recorded attempt was correct
FirstTimeRight(ex) ==
    {n \in 1..Len(ex.items) :
        /\ AttemptsOn(ex, ex.items[n]) # <<>>
        /\ AttemptsOn(ex, ex.items[n])[1].correct}

\* C37: the score check_answer returns with the last item of an exercise is
\* 100 times the number of items whose first recorded attempt was correct,
\* divided by the number of items and rounded down.
C37_FirstAttemptScore ==
    /\ told.call = "exercise.check_answer"
    /\ told.complete
    => told.score = (100 * Cardinality(FirstTimeRight(exercise))) \div Len(exercise.items)

\* C39: a check_answer call on a started exercise moves current_item_index
\* up by exactly one when the answer is correct and leaves it when it is
\* not, the index stays between 0 and the number of items, and at the end
\* of the items the call returns "No more items" and records no attempt.
C39_ExerciseProgress ==
    [][/\ exercise' # Absent =>
             /\ 0 <= exercise'.current_item_index
             /\ exercise'.current_item_index <= Len(exercise'.items)
       /\ \A student_answer \in StudentAnswers :
             exercise # Absent /\ ExerciseCheck(student_answer) =>
                LET index == exercise.current_item_index
                IN  IF index = Len(exercise.items)
                    THEN /\ told'.error = "No more items"
                         /\ exercise'.attempts = exercise.attempts
                         /\ exercise'.current_item_index = index
                    ELSE LET is_correct ==
                                 ExerciseIsCorrect(student_answer, exercise.items[index + 1])
                         IN  /\ told'.error = ""
                             /\ told'.correct = is_correct
                             /\ Len(exercise'.attempts) = Len(exercise.attempts) + 1
                             /\ exercise'.current_item_index =
                                    IF is_correct THEN index + 1 ELSE index
      ]_vars

\* an exercise of several items answered to its end, one answer wrong, and
\* then asked once more
C39_Witness ==
    /\ exercise # Absent
    /\ Len(exercise.items) > 1
    /\ exercise.current_item_index = Len(exercise.items)
    /\ told.call = "exercise.check_answer"
    /\ told.error = "No more items"
    /\ \E n \in 1..Len(exercise.attempts) : ~exercise.attempts[n].correct

\* C38: in every mode, the answer check_answer grades against is the answer
\* of the question presented last for the current item, as first_item of
\* start_drill or next_question of the check_answer before.
C38_GradedAsPresented ==
    [][\A student_answer \in DrillAnswers, pick \in DrillModes, next_pick \in DrillModes :
          /\ drill # Absent
          /\ drill.current_index < Len(drill.items)
          /\ DrillCheck(student_answer, pick, next_pick)
          => /\ told.question # Absent
             /\ told'.against = told.question.answer
      ]_vars

\* C40: for a loaded game, whatever messages process_message is given,
\* current_item_index stays between 0 and total_items and correct_answers
\* never exceeds current_item_index.
C40_GameProgressBound ==
    game # Absent =>
       /\ 0 <= game.current_item_index
       /\ game.current_item_index <= game.total_items
       /\ game.correct_answers <= game.current_item_index

====
